---- MODULE Spec2Model ----
(***************************************************************************)
(* A model of the orchestration core of MORF (morf-python-api): the        *)
(* key/naming functions, the course/session catalog, and the fan-out of    *)
(* one workflow stage over a worker pool.                                  *)
(*                                                                         *)
(* Python strings are modelled as sequences of one-character strings, so   *)
(* that joining, slicing (x[-3:]) and comparison are computed as the code  *)
(* computes them.  None is a value distinct from every string.             *)
(***************************************************************************)
EXTENDS Integers, Sequences, FiniteSets, TLC

VARIABLES
    job_config,   \* the MorfJobConfig object: user_id, job_id, mode, raw_data_buckets
    raw,          \* contents of the raw-data buckets: bucket -> course -> sessions
    call,         \* the last call of a catalog/naming function: fn, args, result
    stage,        \* the running workflow stage function and its position
    units,        \* the WorkUnits dispatched to the pool so far, in dispatch order
    proc          \* the processed-data bucket: key -> the units that uploaded to it

vars == <<job_config, raw, call, stage, units, proc>>

-----------------------------------------------------------------------------
(* Strings *)

None == <<"None">>

\* The characters the model uses, in ascending code-point order.
Chars == <<"-", ".", "/", "0", "1", "2", "3", "4", "5", "6", "7", "8", "9",
           "a", "b", "c", "d", "e", "f", "g", "h", "i", "j", "k", "l", "m",
           "n", "o", "p", "q", "r", "s", "t", "u", "v", "w", "x", "y", "z">>

Ord(c) == CHOOSE i \in 1..Len(Chars) : Chars[i] = c

\* Python's  a < b  on strings: lexicographic by code point, a proper prefix is smaller.
RECURSIVE StrLess(_, _)
StrLess(a, b) ==
    IF b = <<>> THEN FALSE
    ELSE IF a = <<>> THEN TRUE
    ELSE IF Head(a) = Head(b) THEN StrLess(Tail(a), Tail(b))
    ELSE Ord(Head(a)) < Ord(Head(b))

\* Python's  sep.join(parts)
RECURSIVE Join(_, _)
Join(parts, sep) ==
    IF parts = <<>> THEN <<>>
    ELSE IF Len(parts) = 1 THEN parts[1]
    ELSE parts[1] \o sep \o Join(Tail(parts), sep)

\* Python's  [x for x in xs if x is not None]
RECURSIVE NotNone(_)
NotNone(xs) ==
    IF xs = <<>> THEN <<>>
    ELSE IF Head(xs) = None THEN NotNone(Tail(xs))
    ELSE <<Head(xs)>> \o NotNone(Tail(xs))

\* Python's  not x  for an optional string: None and "" are both false.
Falsy(x) == x = None \/ x = <<>>

Slash == <<"/">>
Hyphen == <<"-">>
Dot == <<".">>

M_extract == <<"e", "x", "t", "r", "a", "c", "t">>
M_extract_holdout == M_extract \o Hyphen \o <<"h", "o", "l", "d", "o", "u", "t">>
M_train == <<"t", "r", "a", "i", "n">>
M_test == <<"t", "e", "s", "t">>
Modes == {M_extract, M_extract_holdout, M_train, M_test}

Ext_tgz == <<"t", "g", "z">>
Ext_csv == <<"c", "s", "v">>

-----------------------------------------------------------------------------
(* Key/Naming service *)

make_s3_key_path_swapped(jc, course, filename, session, mode, job_id) ==
    LET m == IF Falsy(mode) THEN jc.mode ELSE mode
        j == IF Falsy(job_id) THEN jc.job_id ELSE job_id
    IN Join(NotNone(<<jc.user_id, j, m, session, course, filename>>), Slash)

make_s3_key_path(jc, course, filename, session, mode, job_id) ==
    LET m == IF Falsy(mode) THEN jc.mode ELSE mode
        j == IF Falsy(job_id) THEN jc.job_id ELSE job_id
        job_attributes == <<jc.user_id, j, m, course, session, filename>>
        active_attributes == NotNone(job_attributes)
    IN Join(active_attributes, Slash)

generate_archive_filename(jc, course, session, extension, mode, job_id) ==
    LET m == IF Falsy(mode) THEN jc.mode ELSE mode
        j == IF Falsy(job_id) THEN jc.job_id ELSE job_id
        job_attributes == <<jc.user_id, j, m, course, session>>
        active_attributes == NotNone(job_attributes)
    IN Join(active_attributes, Hyphen) \o Dot \o extension

\* MorfJobConfig.update_mode
update_mode(jc, mode) == [jc EXCEPT !.mode = mode]

-----------------------------------------------------------------------------
(* Inputs of the naming specification *)

S_u == <<"u">>
S_j == <<"j">>
S_k == <<"k">>
S_b1 == <<"b", "1">>
S_b2 == <<"b", "2">>
S_c == <<"c">>
S_c1 == <<"c", "1">>
S_c2 == <<"c", "2">>
S_c_2012 == <<"c", "-", "2", "0", "1", "2">>
S_001 == <<"0", "0", "1">>
S_002 == <<"0", "0", "2">>
S_003 == <<"0", "0", "3">>
S_2012_001 == <<"2", "0", "1", "2", "-", "0", "0", "1">>
S_f == <<"f">>

NamingCourses == {None, S_c, S_c_2012}
NamingSessions == {None, S_001, S_2012_001}
NamingFilenames == {None, S_f}
NamingModes == {None, <<>>, M_train}
NamingJobIds == {None, S_k}
NamingExtensions == {Ext_tgz, Ext_csv}

NoCall == [fn |-> "none"]
NoStage == [fn |-> "none"]

InitNaming ==
    /\ job_config \in [user_id : {S_u}, job_id : {S_j}, mode : Modes,
                       raw_data_buckets : {<<S_b1>>}]
    /\ raw = <<>>
    /\ call = NoCall
    /\ stage = NoStage
    /\ units = <<>>
    /\ proc = <<>>

CallMakeS3KeyPath ==
    \E course \in NamingCourses, filename \in NamingFilenames,
       session \in NamingSessions, mode \in NamingModes, job_id \in NamingJobIds :
        /\ call' = [fn |-> "make_s3_key_path", jc |-> job_config,
                    course |-> course, session |-> session, filename |-> filename,
                    mode |-> mode, job_id |-> job_id,
                    result |-> make_s3_key_path(job_config, course, filename,
                                                session, mode, job_id)]
        /\ UNCHANGED <<job_config, raw, stage, units, proc>>

CallGenerateArchiveFilename ==
    \E course \in NamingCourses, session \in NamingSessions,
       extension \in NamingExtensions, mode \in NamingModes, job_id \in NamingJobIds :
        /\ call' = [fn |-> "generate_archive_filename", jc |-> job_config,
                    course |-> course, session |-> session, extension |-> extension,
                    mode |-> mode, job_id |-> job_id,
                    result |-> generate_archive_filename(job_config, course, session,
                                                         extension, mode, job_id)]
        /\ UNCHANGED <<job_config, raw, stage, units, proc>>

CallUpdateMode ==
    \E mode \in Modes :
        /\ job_config' = update_mode(job_config, mode)
        /\ UNCHANGED <<raw, call, stage, units, proc>>

NextNaming ==
    \/ CallMakeS3KeyPath
    \/ CallGenerateArchiveFilename
    \/ CallUpdateMode

SpecNaming == InitNaming /\ [][NextNaming]_vars

-----------------------------------------------------------------------------
(* C1 *)

\* An optional path component: nothing when unset, else the separator and the value.
Opt(sep, x) == IF x = None THEN <<>> ELSE sep \o x

EffectiveMode(c) == IF c.mode = None \/ c.mode = <<>> THEN c.jc.mode ELSE c.mode
EffectiveJobId(c) == IF c.job_id = None \/ c.job_id = <<>> THEN c.jc.job_id ELSE c.job_id

CallResultIsOrderedJoin(c) ==
    /\ c.fn = "make_s3_key_path" =>
          c.result = c.jc.user_id \o Slash \o EffectiveJobId(c) \o Slash \o EffectiveMode(c)
                       \o Opt(Slash, c.course) \o Opt(Slash, c.session)
                       \o Opt(Slash, c.filename)
    /\ c.fn = "generate_archive_filename" =>
          c.result = c.jc.user_id \o Hyphen \o EffectiveJobId(c) \o Hyphen \o EffectiveMode(c)
                       \o Opt(Hyphen, c.course) \o Opt(Hyphen, c.session)
                       \o Dot \o c.extension

\* C1: make_s3_key_path returns the '/'-join of user_id, job_id, mode, course,
\* session, filename in that order and generate_archive_filename the '-'-join of
\* user_id, job_id, mode, course, session followed by '.' and the extension; unset
\* components are omitted, the mode is the caller's override when given and
\* job_config.mode otherwise, and the call leaves job_config unchanged.
C1_NamesAreOrderedJoins ==
    [][call' # call =>
          /\ CallResultIsOrderedJoin(call')
          /\ call'.jc = job_config
          /\ job_config' = job_config]_vars

\* A key path was built with a mode override, a course, a session and no filename
\* while the job is in another mode.
C1_Witness ==
    /\ call.fn = "make_s3_key_path"
    /\ call.mode = M_train
    /\ call.jc.mode = M_test
    /\ call.course = S_c
    /\ call.session = S_001
    /\ call.filename = None
    /\ call.result = <<"u", "/", "j", "/">> \o M_train \o <<"/", "c", "/", "0", "0", "1">>

-----------------------------------------------------------------------------
(* C2 *)

\* The identity tuple a naming call was made for, overrides applied.
NamingTuple(c) ==
    <<c.jc.user_id, EffectiveJobId(c), EffectiveMode(c), c.course, c.session,
      IF c.fn = "make_s3_key_path" THEN c.filename ELSE c.extension>>

\* Every call of the same function the inputs allow under the same job_config.
NamingCallsLike(c) ==
    IF c.fn = "make_s3_key_path"
    THEN {[c EXCEPT !.course = course, !.session = session, !.filename = filename,
                    !.mode = mode, !.job_id = job_id,
                    !.result = make_s3_key_path(c.jc, course, filename, session,
                                                mode, job_id)] :
            <<course, session, filename, mode, job_id>> \in
                NamingCourses \X NamingSessions \X NamingFilenames
                    \X NamingModes \X NamingJobIds}
    ELSE {[c EXCEPT !.course = course, !.session = session, !.extension = extension,
                    !.mode = mode, !.job_id = job_id,
                    !.result = generate_archive_filename(c.jc, course, session,
                                                         extension, mode, job_id)] :
            <<course, session, extension, mode, job_id>> \in
                NamingCourses \X NamingSessions \X NamingExtensions
                    \X NamingModes \X NamingJobIds}

\* C2: two identity tuples that differ in a non-omitted field never get the same
\* key path, nor the same archive name.
C2_CollisionFree ==
    call.fn \in {"make_s3_key_path", "generate_archive_filename"} =>
        \A d \in NamingCallsLike(call) :
            NamingTuple(d) # NamingTuple(call) => d.result # call.result

-----------------------------------------------------------------------------
(* Catalog/Enumerator *)

MaxSessions == 3
MaxNTrain == 2

Digit(i) == Chars[i + 4]
SessionName(i) == <<"0", "0", Digit(i)>>

Buckets == {S_b1, S_b2}
Courses == {S_c1, S_c2}

S_2018_001 == <<"2", "0", "1", "8", "-", "0", "0", "1">>
S_2018_002 == <<"2", "0", "1", "8", "-", "0", "0", "2">>
S_2019_001 == <<"2", "0", "1", "9", "-", "0", "0", "1">>
YearSessions == {S_2018_001, S_2018_002, S_2019_001}

\* No directory of that course in the bucket.
NoCourse == {None}

\* What a course directory may hold: sessions 001..00n, for n = 0 (a course with
\* files but no session directory) up to MaxSessions, or year-prefixed sessions.
SessionSets ==
    {{SessionName(i) : i \in 1..n} : n \in 0..MaxSessions} \cup {YearSessions}

Ok(v) == [err |-> "none", val |-> v]
Raise(e) == [err |-> e, val |-> <<>>]

\* S3 lists keys in ascending byte order.
RECURSIVE Listed(_)
Listed(S) ==
    IF S = {} THEN <<>>
    ELSE LET m == CHOOSE x \in S : \A y \in S \ {x} : StrLess(x, y)
         IN <<m>> \o Listed(S \ {m})

\* s3.list_objects(...).get("CommonPrefixes"): the key is absent when nothing matches.
CommonPrefixes(S) == IF S = {} THEN None ELSE Listed(S)

CourseDirs(bucket) == {c \in DOMAIN raw[bucket] : raw[bucket][c] # NoCourse}
SessionDirs(bucket, course) ==
    IF course \in CourseDirs(bucket) THEN raw[bucket][course] ELSE {}

fetch_courses(bucket) ==
    LET prefixes == CommonPrefixes(CourseDirs(bucket))
    IN IF prefixes = None THEN Raise("TypeError") ELSE Ok(prefixes)

Last3_whole(x) == x

\* x[-3:]
Last3(x) == IF Len(x) <= 3 THEN x ELSE SubSeq(x, Len(x) - 2, Len(x))

RECURSIVE InsertByKey(_, _)
InsertByKey(sorted, x) ==
    IF sorted = <<>> THEN <<x>>
    ELSE IF StrLess(Last3(x), Last3(Head(sorted))) THEN <<x>> \o sorted
    ELSE <<Head(sorted)>> \o InsertByKey(Tail(sorted), x)

\* sorted(sessions, key = lambda x: x[-3:]), a stable sort
RECURSIVE SortedByLast3(_)
SortedByLast3(xs) ==
    IF xs = <<>> THEN <<>>
    ELSE InsertByKey(SortedByLast3(SubSeq(xs, 1, Len(xs) - 1)), xs[Len(xs)])

fetch_sessions_lenient(bucket, course, fetch_holdout_session_only, fetch_all_sessions) ==
    LET prefixes == CommonPrefixes(SessionDirs(bucket, course))
        sessions == SortedByLast3(IF prefixes = None THEN <<>> ELSE prefixes)
    IN IF fetch_all_sessions \/ sessions = <<>> THEN Ok(sessions)
       ELSE IF fetch_holdout_session_only THEN Ok(<<sessions[Len(sessions)]>>)
       ELSE Ok(SubSeq(sessions, 1, Len(sessions) - 1))

fetch_sessions(bucket, course, fetch_holdout_session_only, fetch_all_sessions) ==
    IF fetch_holdout_session_only /\ fetch_all_sessions THEN Raise("AssertionError")
    ELSE LET prefixes == CommonPrefixes(SessionDirs(bucket, course))
         IN IF prefixes = None THEN Raise("TypeError")
            ELSE LET sessions == SortedByLast3(prefixes)
                 IN IF fetch_all_sessions THEN Ok(sessions)
                    ELSE IF sessions = <<>> THEN Raise("IndexError")
                    ELSE IF fetch_holdout_session_only
                         THEN Ok(<<sessions[Len(sessions)]>>)
                         ELSE Ok(SubSeq(sessions, 1, Len(sessions) - 1))

\* The loop of fetch_complete_courses over the listed courses; an exception of
\* fetch_sessions is not caught and ends the loop.
RECURSIVE complete_courses_loop(_, _, _, _)
complete_courses_loop(bucket, courses, n_train, complete_courses) ==
    IF courses = <<>> THEN Ok(complete_courses)
    ELSE LET course == Head(courses)
             training_sessions == fetch_sessions(bucket, course, FALSE, FALSE)
             testing_session == fetch_sessions(bucket, course, TRUE, FALSE)
         IN IF training_sessions.err # "none" THEN training_sessions
            ELSE IF testing_session.err # "none" THEN testing_session
            ELSE complete_courses_loop(bucket, Tail(courses), n_train,
                    IF Len(testing_session.val) = 1 /\ Len(training_sessions.val) >= n_train
                    THEN Append(complete_courses, course)
                    ELSE complete_courses)

fetch_complete_courses(bucket, n_train) ==
    LET courses == fetch_courses(bucket)
    IN IF courses.err # "none" THEN courses
       ELSE complete_courses_loop(bucket, courses.val, n_train, <<>>)

InitCatalog ==
    /\ job_config = [user_id |-> S_u, job_id |-> S_j, mode |-> None,
                     raw_data_buckets |-> <<S_b1>>]
    /\ raw \in [{S_b1} -> [Courses -> SessionSets \cup {NoCourse}]]
    /\ call = NoCall
    /\ stage = NoStage
    /\ units = <<>>
    /\ proc = <<>>

CallFetchCourses ==
    \E bucket \in DOMAIN raw :
        /\ call' = [fn |-> "fetch_courses", bucket |-> bucket,
                    result |-> fetch_courses(bucket)]
        /\ UNCHANGED <<job_config, raw, stage, units, proc>>

CallFetchSessions ==
    \E bucket \in DOMAIN raw, course \in Courses,
       fetch_holdout_session_only \in BOOLEAN, fetch_all_sessions \in BOOLEAN :
        /\ call' = [fn |-> "fetch_sessions", bucket |-> bucket, course |-> course,
                    fetch_holdout_session_only |-> fetch_holdout_session_only,
                    fetch_all_sessions |-> fetch_all_sessions,
                    result |-> fetch_sessions(bucket, course,
                                   fetch_holdout_session_only, fetch_all_sessions)]
        /\ UNCHANGED <<job_config, raw, stage, units, proc>>

CallFetchCompleteCourses ==
    \E bucket \in DOMAIN raw, n_train \in 1..MaxNTrain :
        /\ call' = [fn |-> "fetch_complete_courses", bucket |-> bucket,
                    n_train |-> n_train,
                    result |-> fetch_complete_courses(bucket, n_train)]
        /\ UNCHANGED <<job_config, raw, stage, units, proc>>

NextCatalog ==
    \/ CallFetchCourses
    \/ CallFetchSessions
    \/ CallFetchCompleteCourses

SpecCatalog == InitCatalog /\ [][NextCatalog]_vars

-----------------------------------------------------------------------------
(* C4, C5 *)

Min(a, b) == IF a <= b THEN a ELSE b
Range(q) == {q[i] : i \in 1..Len(q)}

\* The last three characters of a session identifier (all of it when shorter).
TrailingKey(x) ==
    LET n == Min(3, Len(x)) IN [i \in 1..n |-> x[Len(x) - n + i]]

\* Session order: by trailing key; sessions with equal keys keep the listing's order.
SessionBefore(a, b) ==
    \/ StrLess(TrailingKey(a), TrailingKey(b))
    \/ TrailingKey(a) = TrailingKey(b) /\ StrLess(a, b)

InSessionOrder(q, S) ==
    /\ Range(q) = S
    /\ Len(q) = Cardinality(S)
    /\ \A i, j \in 1..Len(q) : i < j => SessionBefore(q[i], q[j])

HoldoutOf(S) == CHOOSE h \in S : \A t \in S \ {h} : SessionBefore(t, h)

\* C4: on a course with at least one session fetch_sessions orders the sessions by
\* their last three characters; fetch_all_sessions gives the whole sequence, the
\* default call the sequence without its last element, fetch_holdout_session_only
\* exactly the last element; so training and holdout are disjoint, together they
\* are the all-sessions result, and the holdout result has one element.
C4_SessionSplit ==
    (/\ call.fn = "fetch_sessions"
     /\ SessionDirs(call.bucket, call.course) # {}
     /\ ~(call.fetch_holdout_session_only /\ call.fetch_all_sessions))
    => LET S == SessionDirs(call.bucket, call.course)
           all == fetch_sessions(call.bucket, call.course, FALSE, TRUE)
           training == fetch_sessions(call.bucket, call.course, FALSE, FALSE)
           holdout == fetch_sessions(call.bucket, call.course, TRUE, FALSE)
       IN /\ call.result.err = "none"
          /\ call.fetch_all_sessions => InSessionOrder(call.result.val, S)
          /\ call.fetch_holdout_session_only => call.result.val = <<HoldoutOf(S)>>
          /\ (~call.fetch_all_sessions /\ ~call.fetch_holdout_session_only)
                => InSessionOrder(call.result.val, S \ {HoldoutOf(S)})
          /\ Range(training.val) \cap Range(holdout.val) = {}
          /\ training.val \o holdout.val = all.val
          /\ Len(holdout.val) = 1

\* The training sessions of the year-prefixed course were fetched: the session
\* with the largest trailing number, 2018-002, is held out.
C4_Witness ==
    /\ call.fn = "fetch_sessions"
    /\ SessionDirs(call.bucket, call.course) = YearSessions
    /\ ~call.fetch_all_sessions
    /\ ~call.fetch_holdout_session_only
    /\ call.result = Ok(<<S_2018_001, S_2019_001>>)

\* C5: for a course with sessions 2018-001, 2018-002 and 2019-001 the holdout call
\* returns only 2019-001 and the default call returns 2018-001 and 2018-002.
C5_YearExample ==
    (/\ call.fn = "fetch_sessions"
     /\ SessionDirs(call.bucket, call.course) = YearSessions
     /\ ~call.fetch_all_sessions)
    => /\ call.fetch_holdout_session_only => call.result = Ok(<<S_2019_001>>)
       /\ ~call.fetch_holdout_session_only => call.result = Ok(<<S_2018_001, S_2018_002>>)

-----------------------------------------------------------------------------
(* C7, C8 *)

\* At least n_train training sessions and exactly one holdout session.
IsComplete(bucket, course, n_train) ==
    /\ course \in CourseDirs(bucket)
    /\ SessionDirs(bucket, course) # {}
    /\ Cardinality(SessionDirs(bucket, course) \ {HoldoutOf(SessionDirs(bucket, course))})
          >= n_train

CompleteCourses(bucket, n_train) == {c \in Courses : IsComplete(bucket, c, n_train)}

\* C7: fetch_complete_courses returns exactly the courses of the bucket that have
\* at least n_train training sessions and exactly one holdout session.
C7_ExactlyCompleteCourses ==
    (call.fn = "fetch_complete_courses" /\ CourseDirs(call.bucket) # {})
    => /\ call.result.err = "none"
       /\ Range(call.result.val) = CompleteCourses(call.bucket, call.n_train)
       /\ Len(call.result.val) = Cardinality(CompleteCourses(call.bucket, call.n_train))

\* C8: fetch_complete_courses never raises because of a course it examines: a
\* course without sessions is left out and every other course is still evaluated.
C8_SoftFilter ==
    (/\ call.fn = "fetch_complete_courses"
     /\ \E c \in CourseDirs(call.bucket) : SessionDirs(call.bucket, c) = {})
    => /\ call.result.err = "none"
       /\ \A c \in CompleteCourses(call.bucket, call.n_train) : c \in Range(call.result.val)
       /\ \A c \in Range(call.result.val) : SessionDirs(call.bucket, c) # {}

-----------------------------------------------------------------------------
(* C9 *)

HoldoutRequestedOfEmptyCourse ==
    /\ call.fn = "fetch_sessions"
    /\ call.fetch_holdout_session_only
    /\ ~call.fetch_all_sessions
    /\ SessionDirs(call.bucket, call.course) = {}

\* C9 as stated: the holdout request on a course with fewer than one session fails
\* with the dedicated AmbiguousSessionOrderError and returns no session.
C9_DedicatedError ==
    HoldoutRequestedOfEmptyCourse
    => call.result.err = "AmbiguousSessionOrderError" /\ call.result.val = <<>>

\* C9 as amended: the holdout request on a course with fewer than one session fails
\* with a built-in exception (the TypeError of iterating the absent CommonPrefixes
\* listing), not a dedicated error, and returns no session.
C9_BuiltinError ==
    HoldoutRequestedOfEmptyCourse
    => call.result.err \in {"TypeError", "IndexError"} /\ call.result.val = <<>>

\* The holdout session of a course directory without session directories was requested.
C9_Witness ==
    /\ HoldoutRequestedOfEmptyCourse
    /\ call.course \in CourseDirs(call.bucket)
    /\ call.result.err = "TypeError"

-----------------------------------------------------------------------------
(* Execution engine: input staging, archive upload *)

PoolSize == 2

\* How many uploads of one stage run may raise.
MaxUploadFailures == 1

\* Python's  sub in s
IsSubstring(sub, s) ==
    \E i \in 0..(Len(s) - Len(sub)) : SubSeq(s, i + 1, i + Len(sub)) = sub

HasPrefix(s, p) == Len(p) <= Len(s) /\ SubSeq(s, 1, Len(p)) = p

Inputs(err, staged) == [err |-> err, staged |-> staged]

\* An attribute the configuration file does not give: MorfJobConfig.__init__ sets
\* one attribute per property of the file, so the object lacks it.
Missing == <<"<missing>">>

S_cache == <<"/", "c", "a", "c", "h", "e">>
S_docker_url == <<"s", "3", ":", "/", "/", "i", "m", "g">>
S_morf_data == <<"m", "o", "r", "f", "-", "d", "a", "t", "a", "/">>
S_data == <<"d", "a", "t", "a", "/">>

\* fetch_data_buckets_from_config: the directory of every [data] URL must be
\* required_bucket_dir_name; the bare raise has no active exception (RuntimeError).
fetch_data_buckets_from_config(config) ==
    IF config.data_dir # S_morf_data THEN Raise("RuntimeError")
    ELSE Ok(config.raw_data_buckets)

\* MorfJobConfig(config_file): mode None, one attribute per property, the buckets.
MorfJobConfig(config) ==
    LET buckets == fetch_data_buckets_from_config(config)
    IN IF buckets.err # "none" THEN buckets
       ELSE Ok([config EXCEPT !.mode = None, !.raw_data_buckets = buckets.val])

\* fetch_raw_course_data: copies the session from the cache mirror when the job
\* has a cache_dir; the other branch reads the unbound name raw_data_bucket.
fetch_raw_course_data(jc, bucket, course, session) ==
    IF jc.cache_dir # Missing THEN Ok({<<bucket, course, session>>})
    ELSE Raise("NameError")

\* for session in sessions: fetch_raw_course_data(...)
RECURSIVE raw_sessions_loop(_, _, _, _, _)
raw_sessions_loop(jc, bucket, course, sessions, staged) ==
    IF sessions = <<>> THEN Inputs("none", staged)
    ELSE LET r == fetch_raw_course_data(jc, bucket, course, Head(sessions))
         IN IF r.err # "none" THEN Inputs(r.err, staged)
            ELSE raw_sessions_loop(jc, bucket, course, Tail(sessions),
                                   staged \cup r.val)

\* for session in sessions: fetch_raw_course_data / fetch_train_test_data
SessionsStaged(bucket, course, sessions) ==
    {<<bucket, course, sessions[i]>> : i \in 1..Len(sessions)}

\* The per-course body of initialize_raw_course_data (levels all and course):
\* training sessions in mode extract, the holdout session in mode extract-holdout.
RECURSIVE raw_courses_loop(_, _, _, _, _)
raw_courses_loop(jc, bucket, courses, mode, staged) ==
    IF courses = <<>> THEN Inputs("none", staged)
    ELSE LET course == Head(courses)
             sessions == IF mode = M_extract
                         THEN fetch_sessions(bucket, course, FALSE, FALSE)
                         ELSE Ok(<<>>)
             holdout_session == IF mode = M_extract_holdout
                                THEN fetch_sessions(bucket, course, TRUE, FALSE)
                                ELSE Ok(<<>>)
         IN IF sessions.err # "none" THEN Inputs(sessions.err, staged)
            ELSE IF holdout_session.err # "none" THEN Inputs(holdout_session.err, staged)
            ELSE LET r == raw_sessions_loop(jc, bucket, course,
                                            sessions.val \o holdout_session.val, staged)
                 IN IF r.err # "none" THEN r
                    ELSE raw_courses_loop(jc, bucket, Tail(courses), mode, r.staged)

RECURSIVE raw_buckets_loop(_, _, _, _)
raw_buckets_loop(jc, buckets, mode, staged) ==
    IF buckets = <<>> THEN Inputs("none", staged)
    ELSE LET courses == fetch_courses(Head(buckets))
         IN IF courses.err # "none" THEN Inputs(courses.err, staged)
            ELSE LET r == raw_courses_loop(jc, Head(buckets), courses.val, mode, staged)
                 IN IF r.err # "none" THEN r
                    ELSE raw_buckets_loop(jc, Tail(buckets), mode, r.staged)

initialize_raw_course_data_every_session(jc, raw_data_bucket, level, mode, course, session) ==
    IF level = "course"
    THEN LET sessions == fetch_sessions(raw_data_bucket, course, FALSE, TRUE)
         IN IF sessions.err # "none" THEN Inputs(sessions.err, {})
            ELSE raw_sessions_loop(jc, raw_data_bucket, course, sessions.val, {})
    ELSE IF level = "all" THEN raw_buckets_loop(jc, raw_data_bucket, mode, {})
    ELSE raw_sessions_loop(jc, raw_data_bucket, course, <<session>>, {})

initialize_raw_course_data(jc, raw_data_bucket, level, mode, course, session) ==
    IF level = "all" THEN raw_buckets_loop(jc, raw_data_bucket, mode, {})
    ELSE IF level = "course"
    THEN raw_courses_loop(jc, raw_data_bucket, <<course>>, mode, {})
    ELSE IF level = "session"
    THEN raw_sessions_loop(jc, raw_data_bucket, course, <<session>>, {})
    ELSE Inputs("none", {})

\* The per-course body of initialize_train_test_data (levels all and course):
\* training sessions in mode train, the holdout session in mode test.
RECURSIVE train_test_courses_loop(_, _, _, _)
train_test_courses_loop(bucket, courses, mode, staged) ==
    IF courses = <<>> THEN Inputs("none", staged)
    ELSE LET course == Head(courses)
             sessions == IF mode = M_train
                         THEN fetch_sessions(bucket, course, FALSE, FALSE)
                         ELSE IF mode = M_test
                         THEN fetch_sessions(bucket, course, TRUE, FALSE)
                         ELSE Raise("NameError")
         IN IF sessions.err # "none" THEN Inputs(sessions.err, staged)
            ELSE train_test_courses_loop(bucket, Tail(courses), mode,
                    staged \cup SessionsStaged(bucket, course, sessions.val))

RECURSIVE train_test_buckets_loop(_, _, _)
train_test_buckets_loop(buckets, mode, staged) ==
    IF buckets = <<>> THEN Inputs("none", staged)
    ELSE LET courses == fetch_courses(Head(buckets))
         IN IF courses.err # "none" THEN Inputs(courses.err, staged)
            ELSE LET r == train_test_courses_loop(Head(buckets), courses.val, mode, staged)
                 IN IF r.err # "none" THEN r
                    ELSE train_test_buckets_loop(Tail(buckets), mode, r.staged)

initialize_train_test_data(jc, raw_data_bucket, level, course, session) ==
    IF level = "all" THEN train_test_buckets_loop(raw_data_bucket, jc.mode, {})
    ELSE IF level = "course"
    THEN train_test_courses_loop(raw_data_bucket, <<course>>, jc.mode, {})
    ELSE IF level = "session" THEN Inputs("none", {<<raw_data_bucket, course, session>>})
    ELSE Inputs("none", {})

\* run_image up to the staging of its inputs
run_image_inputs(jc, raw_data_bucket, course, session, level) ==
    IF jc.docker_url = Missing THEN Inputs("AttributeError", {})
    ELSE IF IsSubstring(M_extract, jc.mode)
    THEN initialize_raw_course_data(jc, raw_data_bucket, level, jc.mode, course, session)
    ELSE IF jc.mode \in {M_train, M_test}
    THEN initialize_train_test_data(jc, raw_data_bucket, level, course, session)
    ELSE Inputs("none", {})

\* run_job: the arguments it passes on to run_image for each level
run_job(jc, course, session, level, raw_data_bucket) ==
    IF level = "all"
    THEN [raw_data_bucket |-> jc.raw_data_buckets, course |-> None, session |-> None,
          level |-> level]
    ELSE IF level = "course"
    THEN [raw_data_bucket |-> raw_data_bucket, course |-> course, session |-> None,
          level |-> level]
    ELSE [raw_data_bucket |-> raw_data_bucket, course |-> course, session |-> session,
          level |-> level]

\* The arguments run_image receives for a dispatched unit.
RunImageArgs(jc, u) ==
    IF u.via = "run_job" THEN run_job(jc, u.course, u.session, u.level, u.bucket)
    ELSE [raw_data_bucket |-> u.bucket, course |-> u.course, session |-> u.session,
          level |-> u.level]

\* move_results_to_destination: the key the unit's archive is uploaded to
move_results_key(jc, course, session) ==
    make_s3_key_path(jc, course,
                     generate_archive_filename(jc, course, session, Ext_tgz, None, None),
                     session, None, None)

\* move_results_to_destination: the upload raises or not; its exception is caught
\* and logged, and os.remove(archive_file) follows in both cases.
move_results_to_destination(jc, course, session, upload_ok) ==
    [key |-> move_results_key(jc, course, session),
     uploaded |-> upload_ok,
     archive_file |-> "removed"]

\* AsyncResult.get(): the value run_job / run_image returned, or its exception
\* raised again in the caller.
get(u) == IF u.status = "failed" THEN Raise(u.err) ELSE Ok(None)

clear_s3_subdirectory_no_slash(jc, objects) ==
    LET s3_prefix == Join(<<jc.user_id, jc.job_id, jc.mode>>, Slash)
    IN [k \in {x \in DOMAIN objects : ~HasPrefix(x, s3_prefix)} |-> objects[k]]

\* clear_s3_subdirectory with no course, session or mode given
clear_s3_subdirectory(jc, objects) ==
    LET s3_prefix == Join(<<jc.user_id, jc.job_id, jc.mode>>, Slash) \o Slash
    IN [k \in {x \in DOMAIN objects : ~HasPrefix(x, s3_prefix)} |-> objects[k]]

-----------------------------------------------------------------------------
(* Result aggregation *)

\* fetch_result_file: a failed download is logged and leaves an empty file, on
\* which unarchive_file's tarfile.open raises ReadError; otherwise the archive of
\* the unit that uploaded under the key is unpacked.
fetch_result_file(jc, course, session, objects) ==
    LET archive_file == generate_archive_filename(jc, course, session, Ext_tgz, None, None)
        key == make_s3_key_path(jc, course, archive_file, session, None, None)
    IN IF key \in DOMAIN objects THEN Ok(objects[key]) ELSE Raise("ReadError")

\* feat_df with its course and session columns; unit is whose rows they are.
FeatDf(course, session, unit) == [course |-> course, session |-> session, unit |-> unit]

\* pd.concat(feat_df_list): "No objects to concatenate" for an empty list
concat(feat_df_list) ==
    IF feat_df_list = <<>> THEN Raise("ValueError") ELSE Ok(feat_df_list)

\* try: fetch_result_file ... feat_df_list.append(feat_df)  except: continue
try_append(course, session, f) ==
    IF f.err # "none" THEN <<>> ELSE <<FeatDf(course, session, f.val)>>

\* An exception of the iterable leaves the loop; otherwise the rows of this
\* iteration precede those of the remaining ones.
loop_step(iterable, rows, rest) ==
    IF iterable.err # "none" THEN iterable
    ELSE IF rest.err # "none" THEN rest
    ELSE Ok(rows \o rest.val)

\* master_feat_df = pd.concat(feat_df_list)
loop_end(r) == IF r.err # "none" THEN r ELSE concat(r.val)

\* collect_session_results: for run in fetch_sessions(...), try/except/continue
RECURSIVE session_results_runs(_, _, _, _)
session_results_runs(jc, course, runs, objects) ==
    IF runs = <<>> THEN <<>>
    ELSE try_append(course, Head(runs),
                    fetch_result_file(jc, course, Head(runs), objects))
         \o session_results_runs(jc, course, Tail(runs), objects)

session_results_course(jc, course, runs, objects) ==
    IF runs.err # "none" THEN runs
    ELSE Ok(session_results_runs(jc, course, runs.val, objects))

RECURSIVE session_results_courses(_, _, _, _, _)
session_results_courses(jc, holdout, bucket, courses, objects) ==
    IF courses = <<>> THEN Ok(<<>>)
    ELSE LET r == session_results_course(jc, Head(courses),
                      fetch_sessions(bucket, Head(courses), holdout, FALSE), objects)
         IN loop_step(r, r.val, session_results_courses(jc, holdout, bucket,
                                                        Tail(courses), objects))

session_results_bucket(jc, holdout, bucket, courses, objects) ==
    IF courses.err # "none" THEN courses
    ELSE session_results_courses(jc, holdout, bucket, courses.val, objects)

RECURSIVE session_results_buckets(_, _, _, _)
session_results_buckets(jc, holdout, buckets, objects) ==
    IF buckets = <<>> THEN Ok(<<>>)
    ELSE LET r == session_results_bucket(jc, holdout, Head(buckets),
                                         fetch_courses(Head(buckets)), objects)
         IN loop_step(r, r.val, session_results_buckets(jc, holdout,
                                                        Tail(buckets), objects))

collect_session_results(jc, holdout, raw_data_buckets, objects) ==
    loop_end(session_results_buckets(jc, holdout,
                                     IF raw_data_buckets = <<>> THEN jc.raw_data_buckets
                                     ELSE raw_data_buckets,
                                     objects))

\* collect_course_results: for course in fetch_complete_courses(...)
course_results_course(jc, course, holdout, objects) ==
    IF holdout.err # "none" THEN holdout
    ELSE Ok(try_append(course, None,
                       fetch_result_file(jc, course, holdout.val[1], objects)))

RECURSIVE course_results_courses(_, _, _, _)
course_results_courses(jc, bucket, courses, objects) ==
    IF courses = <<>> THEN Ok(<<>>)
    ELSE LET r == course_results_course(jc, Head(courses),
                      IF jc.mode = M_extract_holdout
                      THEN fetch_sessions(bucket, Head(courses), TRUE, FALSE)
                      ELSE Ok(<<None>>),
                      objects)
         IN loop_step(r, r.val, course_results_courses(jc, bucket, Tail(courses),
                                                       objects))

course_results_bucket(jc, bucket, courses, objects) ==
    IF courses.err # "none" THEN courses
    ELSE course_results_courses(jc, bucket, courses.val, objects)

RECURSIVE course_results_buckets(_, _, _)
course_results_buckets(jc, buckets, objects) ==
    IF buckets = <<>> THEN Ok(<<>>)
    ELSE LET r == course_results_bucket(jc, Head(buckets),
                                        fetch_complete_courses(Head(buckets), 1),
                                        objects)
         IN loop_step(r, r.val, course_results_buckets(jc, Tail(buckets), objects))

collect_course_results(jc, objects) ==
    loop_end(course_results_buckets(jc, jc.raw_data_buckets, objects))

\* collect_all_results: fetch_result_file outside any try
collect_all_result(f) ==
    IF f.err # "none" THEN f ELSE Ok(<<FeatDf(None, None, f.val)>>)

collect_all_results(jc, objects) ==
    collect_all_result(fetch_result_file(jc, None, None, objects))

-----------------------------------------------------------------------------
(* Workflow stages and the fan-out scheduler *)

StageFns == {"extract_all", "extract_course", "extract_session",
             "extract_holdout_all", "extract_holdout_course", "extract_holdout_session",
             "train_all", "train_course", "train_session",
             "test_all", "test_course"}

StageMode(fn) ==
    IF fn \in {"extract_all", "extract_course", "extract_session"} THEN M_extract
    ELSE IF fn \in {"extract_holdout_all", "extract_holdout_course",
                    "extract_holdout_session"} THEN M_extract_holdout
    ELSE IF fn \in {"train_all", "train_course", "train_session"} THEN M_train
    ELSE M_test

StageLevel(fn) ==
    IF fn \in {"extract_all", "extract_holdout_all", "train_all", "test_all"} THEN "all"
    ELSE IF fn \in {"extract_session", "extract_holdout_session", "train_session"}
    THEN "session"
    ELSE "course"

\* train_* call run_image, the other stages run_job.
StageVia(fn) ==
    IF fn \in {"train_all", "train_course", "train_session"} THEN "run_image" ELSE "run_job"

\* The courses a stage iterates over in one bucket.
StageCourses(fn, bucket) ==
    IF fn \in {"train_course", "train_session", "test_course"}
    THEN fetch_complete_courses(bucket, 1)
    ELSE fetch_courses(bucket)

\* The session arguments a stage dispatches for one course.
StageSessions(fn, bucket, course) ==
    IF fn \in {"extract_session", "train_session"}
    THEN fetch_sessions(bucket, course, FALSE, FALSE)
    ELSE IF fn \in {"extract_holdout_course", "extract_holdout_session"}
    THEN fetch_sessions(bucket, course, TRUE, FALSE)
    ELSE Ok(<<None>>)

\* Whether the stage appends the AsyncResult of a dispatch to reslist.
StageKeepsFutures(fn) == fn \notin {"extract_holdout_session", "test_course"}

NewUnit(fn, bucket, course, session) ==
    [via |-> StageVia(fn), bucket |-> bucket, course |-> course, session |-> session,
     level |-> StageLevel(fn), status |-> "queued", staged |-> {}, err |-> "none",
     key |-> None, archive_file |-> "none"]

Finished_unless_running(u) == u.status # "staged"

\* uploaded: run_image returned after a successful upload; upload_failed: it
\* returned after an upload that raised; failed: it raised; terminated: the pool
\* was terminated before the task completed.
Finished(u) == u.status \in {"uploaded", "upload_failed", "failed", "terminated"}

\* Pool.__exit__ terminates the pool: its unfinished tasks never complete.
TerminatePool(us) ==
    [i \in 1..Len(us) |-> IF Finished(us[i]) THEN us[i]
                          ELSE [us[i] EXCEPT !.status = "terminated"]]

\* What the stage options allow a course directory to hold.
StageSessionSets ==
    {{}, {SessionName(1)}, {SessionName(i) : i \in 1..MaxSessions}, YearSessions}

\* The aggregation a stage function runs after its units.
StageCollect(fn, jc, objects) ==
    IF fn \in {"extract_all", "extract_holdout_all", "test_all"}
    THEN collect_all_results(jc, objects)
    ELSE IF fn \in {"extract_course", "extract_holdout_course", "test_course"}
    THEN collect_course_results(jc, objects)
    ELSE IF fn = "extract_session" THEN collect_session_results(jc, FALSE, <<>>, objects)
    ELSE IF fn = "extract_holdout_session"
    THEN collect_session_results(jc, TRUE, <<>>, objects)
    ELSE Ok(<<>>)

\* The stage after its aggregation returned master_feat_df or raised.
Collected(st, master_feat_df) ==
    IF master_feat_df.err # "none"
    THEN [st EXCEPT !.pc = "raised", !.raised = "collect"]
    ELSE [st EXCEPT !.pc = "done", !.table = master_feat_df.val]

\* A stage function at position pc; raised names the step an exception left it from.
StageAt(fn, pc, raised) ==
    [fn |-> fn, pc |-> pc, b |-> 1, todo |-> <<>>, reslist |-> <<>>,
     raised |-> raised, table |-> <<>>]

\* config.properties as the stage functions find it: complete with and without a
\* cache_dir, without docker_url, and with a [data] URL outside morf-data/.
ConfigFile(cache_dir, docker_url, data_dir) ==
    [user_id |-> S_u, job_id |-> S_j, mode |-> None,
     raw_data_buckets |-> <<S_b1, S_b2>>, max_num_cores |-> PoolSize,
     cache_dir |-> cache_dir, docker_url |-> docker_url, data_dir |-> data_dir]

ConfigFiles ==
    {ConfigFile(S_cache, S_docker_url, S_morf_data),
     ConfigFile(Missing, S_docker_url, S_morf_data),
     ConfigFile(S_cache, Missing, S_morf_data),
     ConfigFile(S_cache, S_docker_url, S_data)}

Init ==
    /\ job_config \in ConfigFiles
    /\ raw \in [Buckets -> [Courses -> StageSessionSets \cup {NoCourse}]]
    /\ call = NoCall
    /\ stage = NoStage
    /\ units = <<>>
    /\ proc = <<>>

\* The head of a stage function: MorfJobConfig, update_mode, clear_s3_subdirectory.
StartStage ==
    /\ stage = NoStage
    /\ \E fn \in StageFns :
        LET jc == MorfJobConfig(job_config)
        IN IF jc.err # "none"
           THEN /\ stage' = StageAt(fn, "raised", "config")
                /\ UNCHANGED <<job_config, proc>>
           ELSE /\ job_config' = update_mode(jc.val, StageMode(fn))
                /\ proc' = clear_s3_subdirectory(job_config', proc)
                /\ stage' = StageAt(fn, IF StageLevel(fn) = "all" THEN "all"
                                        ELSE "bucket", "none")
    /\ UNCHANGED <<raw, call, units>>

\* for raw_data_bucket in job_config.raw_data_buckets: courses = fetch_...(bucket)
EnterBucket ==
    /\ stage.fn # "none"
    /\ stage.pc = "bucket"
    /\ IF stage.b > Len(job_config.raw_data_buckets)
       THEN stage' = [stage EXCEPT !.pc = "collect"]
       ELSE LET courses == StageCourses(stage.fn, job_config.raw_data_buckets[stage.b])
            IN IF courses.err # "none"
               THEN stage' = [stage EXCEPT !.pc = "raised", !.raised = "catalog"]
               ELSE stage' = [stage EXCEPT !.pc = "dispatch", !.todo = courses.val,
                                           !.reslist = <<>>]
    /\ UNCHANGED <<job_config, raw, call, units, proc>>

\* One iteration of "for course in courses": the apply_async calls for the course.
DispatchCourse ==
    /\ stage.fn # "none"
    /\ stage.pc = "dispatch"
    /\ stage.todo # <<>>
    /\ LET bucket == job_config.raw_data_buckets[stage.b]
           course == Head(stage.todo)
           sessions == StageSessions(stage.fn, bucket, course)
           n == Len(units)
       IN IF sessions.err # "none"
          THEN /\ stage' = [stage EXCEPT !.pc = "raised", !.raised = "dispatch"]
               /\ units' = TerminatePool(units)
          ELSE /\ units' = units \o [i \in 1..Len(sessions.val) |->
                                        NewUnit(stage.fn, bucket, course, sessions.val[i])]
               /\ stage' = [stage EXCEPT
                               !.todo = Tail(stage.todo),
                               !.reslist = IF StageKeepsFutures(stage.fn)
                                           THEN stage.reslist \o
                                                [i \in 1..Len(sessions.val) |-> n + i]
                                           ELSE stage.reslist]
    /\ UNCHANGED <<job_config, raw, call, proc>>

\* pool.close(); pool.join(); for res in reslist: res.get()
\* get() re-raises the exception of a failed unit.
JoinPool ==
    /\ stage.fn # "none"
    /\ stage.pc = "dispatch"
    /\ stage.todo = <<>>
    /\ \A i \in 1..Len(units) : Finished(units[i])
    /\ IF \E k \in 1..Len(stage.reslist) : get(units[stage.reslist[k]]).err # "none"
       THEN stage' = [stage EXCEPT !.pc = "raised", !.raised = "get"]
       ELSE stage' = [stage EXCEPT !.pc = "bucket", !.b = stage.b + 1]
    /\ UNCHANGED <<job_config, raw, call, units, proc>>

\* level all: the stage calls run_job / run_image once, in its own process.
RunAll ==
    /\ stage.fn # "none"
    /\ stage.pc = "all"
    /\ units = <<>>
    /\ units' = <<NewUnit(stage.fn, job_config.raw_data_buckets, None, None)>>
    /\ UNCHANGED <<job_config, raw, call, stage, proc>>

AllReturned ==
    /\ stage.fn # "none"
    /\ stage.pc = "all"
    /\ units # <<>>
    /\ Finished(units[1])
    /\ stage' = IF units[1].status = "failed"
                THEN [stage EXCEPT !.pc = "raised", !.raised = "run"]
                ELSE [stage EXCEPT !.pc = "collect"]
    /\ UNCHANGED <<job_config, raw, call, units, proc>>

\* The tail of a stage function: collect the results, send the email alert.
FinishStage ==
    /\ stage.fn # "none"
    /\ stage.pc = "collect"
    /\ stage' = Collected(stage, StageCollect(stage.fn, job_config, proc))
    /\ UNCHANGED <<job_config, raw, call, units, proc>>

\* s3.upload_file succeeds or raises.
UploadOutcomes(us) ==
    IF Cardinality({j \in 1..Len(us) : us[j].status = "upload_failed"})
          < MaxUploadFailures
    THEN BOOLEAN ELSE {TRUE}

\* A worker takes a unit and run_image stages its inputs.
UnitStageInputs ==
    /\ stage.fn # "none"
    /\ stage.pc # "raised"
    /\ \E i \in 1..Len(units) :
        /\ units[i].status = "queued"
        /\ Cardinality({j \in 1..Len(units) : units[j].status = "staged"})
              < job_config.max_num_cores
        /\ LET a == RunImageArgs(job_config, units[i])
               inputs == run_image_inputs(job_config, a.raw_data_bucket, a.course,
                                          a.session, a.level)
           IN units' = [units EXCEPT ![i].staged = inputs.staged,
                                     ![i].err = inputs.err,
                                     ![i].status = IF inputs.err = "none" THEN "staged"
                                                   ELSE "failed"]
    /\ UNCHANGED <<job_config, raw, call, stage, proc>>

\* run_image archives the unit's output and uploads it.
UnitUpload ==
    /\ stage.fn # "none"
    /\ stage.pc # "raised"
    /\ \E i \in 1..Len(units) :
        /\ units[i].status = "staged"
        /\ \E upload_ok \in UploadOutcomes(units) :
            LET a == RunImageArgs(job_config, units[i])
                r == move_results_to_destination(job_config, a.course, a.session,
                                                 upload_ok)
            IN /\ units' = [units EXCEPT
                               ![i].status = IF r.uploaded THEN "uploaded"
                                             ELSE "upload_failed",
                               ![i].key = r.key,
                               ![i].archive_file = r.archive_file]
               /\ proc' = IF r.uploaded
                          THEN [k \in DOMAIN proc \cup {r.key} |->
                                    IF k = r.key THEN i ELSE proc[k]]
                          ELSE proc
    /\ UNCHANGED <<job_config, raw, call, stage>>

Next ==
    \/ StartStage
    \/ EnterBucket
    \/ DispatchCourse
    \/ JoinPool
    \/ RunAll
    \/ AllReturned
    \/ FinishStage
    \/ UnitStageInputs
    \/ UnitUpload

Spec == Init /\ [][Next]_vars

-----------------------------------------------------------------------------
(* C3 *)

Uploaded(i) == units[i].status = "uploaded"

\* C3: in a stage run no two distinct WorkUnits upload their output archive to the
\* same key of the processed-data bucket.
C3_UniqueUploadKeys ==
    \A i, j \in 1..Len(units) :
        (i # j /\ Uploaded(i) /\ Uploaded(j)) => units[i].key # units[j].key

-----------------------------------------------------------------------------
(* C6 *)

TrainingOf(S) == S \ {HoldoutOf(S)}

StagedOnlyTraining(u) ==
    \A e \in u.staged : e[3] \in TrainingOf(SessionDirs(e[1], e[2]))

StagedOnlyHoldout(u) ==
    \A e \in u.staged :
        SessionDirs(e[1], e[2]) # {} /\ e[3] = HoldoutOf(SessionDirs(e[1], e[2]))

\* What a course-level unit that got its inputs has staged, by mode.
CourseUnitStagedAll(u) ==
    (u.level = "course" /\ u.status \in {"staged", "uploaded"})
    => LET S == SessionDirs(u.bucket, u.course)
       IN u.staged = {<<u.bucket, u.course, s>> : s \in
                        IF job_config.mode \in {M_extract, M_train}
                        THEN TrainingOf(S) ELSE {HoldoutOf(S)}}

-----------------------------------------------------------------------------
(* C10 *)

ConfiguredBuckets == Range(job_config.raw_data_buckets)

\* The catalog of a level: the complete courses of each bucket, and their
\* training sessions.
CourseCatalog == {<<b, c>> : b \in ConfiguredBuckets, c \in Courses} \cap
                 {e \in Buckets \X Courses : IsComplete(e[1], e[2], 1)}

SessionCatalog ==
    UNION {{<<e[1], e[2], s>> : s \in TrainingOf(SessionDirs(e[1], e[2]))} :
            e \in CourseCatalog}

NoDuplicates(q) == \A i, j \in 1..Len(q) : i # j => q[i] # q[j]

CourseUnits == [i \in 1..Len(units) |-> <<units[i].bucket, units[i].course>>]
SessionUnits ==
    [i \in 1..Len(units) |-> <<units[i].bucket, units[i].course, units[i].session>>]

\* C10: an extract, train or test stage that has dispatched all its units has
\* dispatched exactly one per catalog element: one unit over all buckets at level all, one per complete course
\* at level course, one per (complete course, training session) at level session.
C10_OneUnitPerCatalogElement ==
    (/\ stage.fn \in StageFns
     /\ StageMode(stage.fn) # M_extract_holdout
     /\ stage.pc \in {"collect", "done"})
    => /\ StageLevel(stage.fn) = "all" =>
            /\ Len(units) = 1
            /\ units[1].bucket = job_config.raw_data_buckets
       /\ StageLevel(stage.fn) = "course" =>
            /\ NoDuplicates(CourseUnits)
            /\ Range(CourseUnits) = CourseCatalog
       /\ StageLevel(stage.fn) = "session" =>
            /\ NoDuplicates(SessionUnits)
            /\ Range(SessionUnits) = SessionCatalog

-----------------------------------------------------------------------------
(* C11 *)

\* Units i and j were dispatched to the pool of the same bucket.
SamePool(i, j) ==
    /\ i # j
    /\ units[i].level # "all"
    /\ units[i].bucket = units[j].bucket

\* The exception unit j's own run_image raises on its own arguments.
OwnError(j) ==
    LET a == RunImageArgs(job_config, units[j])
    IN run_image_inputs(job_config, a.raw_data_bucket, a.course, a.session, a.level).err

\* The stage function has left the pool (close, join) of unit j's bucket.
PoolJoined(j) ==
    \/ stage.pc \in {"collect", "done"}
    \/ stage.pc = "raised" /\ stage.raised \in {"get", "collect", "catalog"}
    \/ stage.pc \in {"bucket", "dispatch"}
            /\ stage.b <= Len(job_config.raw_data_buckets)
            /\ \E k \in 1..(stage.b - 1) : job_config.raw_data_buckets[k] = units[j].bucket
            /\ job_config.raw_data_buckets[stage.b] # units[j].bucket
    \/ stage.pc = "bucket" /\ stage.b > Len(job_config.raw_data_buckets)

\* C11: when a unit of a pool has raised and the dispatch loop of the stage has
\* not itself raised, no sibling unit of that pool is terminated or skipped, a
\* sibling fails only by the exception of its own run, the stage waits at the
\* join for every unfinished sibling, and once the pool is joined every sibling
\* has run to its end and attempted its own upload.
C11_SiblingsUnaffected ==
    \A i, j \in 1..Len(units) :
        (/\ SamePool(i, j)
         /\ units[i].status = "failed"
         /\ stage.raised # "dispatch")
        => /\ units[j].status # "terminated"
           /\ units[j].status = "failed" => units[j].err = OwnError(j)
           /\ units[j].status \in {"queued", "staged"}
                => stage.pc = "dispatch" /\ ~PoolJoined(j)
           /\ PoolJoined(j) => units[j].status \in {"uploaded", "upload_failed", "failed"}
           /\ units[j].status = "uploaded"
                => units[j].key = move_results_key(job_config,
                                      RunImageArgs(job_config, units[j]).course,
                                      RunImageArgs(job_config, units[j]).session)

\* A unit of a pool raised and a sibling dispatched to the same pool uploaded its
\* archive afterwards, and the pool has been joined.
C11_Witness ==
    \E i, j \in 1..Len(units) :
        /\ SamePool(i, j)
        /\ units[i].status = "failed"
        /\ units[j].status = "uploaded"
        /\ units[j].key \in DOMAIN proc
        /\ PoolJoined(j)

-----------------------------------------------------------------------------
(* C12, C13 *)

\* The configuration gives every attribute the stage reads, and a cache_dir.
CompleteConfig ==
    /\ job_config.cache_dir # Missing
    /\ job_config.docker_url # Missing
    /\ job_config.data_dir = S_morf_data

\* C12: an exception raised inside a unit is not raised again by the stage
\* function: with a failed unit the stage still goes on to aggregate the results
\* and to send its notification.
C12_UnitExceptionNotReraised ==
    (/\ stage.fn \in StageFns
     /\ StageLevel(stage.fn) # "all"
     /\ CompleteConfig
     /\ \E i \in 1..Len(units) : units[i].status = "failed")
    => stage.raised # "get"

\* C13: a fan-out stage holds, in reslist, one future for each unit it has
\* dispatched to the pool of the current bucket, so that the loop after the join
\* observes the outcome of every dispatched unit.
C13_OneFuturePerDispatch ==
    (/\ stage.fn \in StageFns
     /\ StageLevel(stage.fn) # "all"
     /\ stage.pc = "dispatch")
    => /\ NoDuplicates(stage.reslist)
       /\ Range(stage.reslist)
            = {i \in 1..Len(units) :
                 units[i].bucket = job_config.raw_data_buckets[stage.b]}

-----------------------------------------------------------------------------
(* C14, C15 *)

\* C14: the local archive of a unit whose upload failed is still on disk.
C14_UploadThenDelete ==
    \A i \in 1..Len(units) :
        units[i].status = "upload_failed" => units[i].archive_file # "removed"

\* C15: a unit whose upload failed ends as a failure the scheduler observes:
\* the get() of its future raises.
C15_UploadFailureSurfaces ==
    \A i \in 1..Len(units) :
        units[i].status = "upload_failed" => get(units[i]).err # "none"

-----------------------------------------------------------------------------
(* C16: the aggregation functions over a processed-data bucket in which any
   subset of the units' archives is present *)

\* The session directories of a course that has sessions.
CollectSessionSets == {{SessionName(i) : i \in 1..n} : n \in 1..MaxSessions}

InitCollect ==
    /\ job_config \in {[ConfigFile(S_cache, S_docker_url, S_morf_data)
                           EXCEPT !.mode = m, !.raw_data_buckets = <<S_b1>>] :
                        m \in {M_extract, M_extract_holdout}}
    /\ raw \in [{S_b1} -> [Courses -> CollectSessionSets]]
    /\ call = NoCall
    /\ stage = NoStage
    /\ units = <<>>
    /\ proc = <<>>

\* The units of a session-level and of a course-level stage of the job's mode:
\* one per course and training (extract) or holdout (extract-holdout) session,
\* one per complete course.
SessionLevelUnits ==
    {<<c, s>> : c \in Courses, s \in UNION {raw[S_b1][c] : c \in Courses}}
    \cap {e \in Courses \X UNION {raw[S_b1][c] : c \in Courses} :
            e[2] \in IF job_config.mode = M_extract
                     THEN TrainingOf(raw[S_b1][e[1]])
                     ELSE {HoldoutOf(raw[S_b1][e[1]])}}

CourseLevelUnits == {<<c, None>> : c \in CompleteCourses(S_b1, 1)}

\* A unit's run_image uploads its archive: move_results_to_destination.
PutArchive ==
    /\ call = NoCall
    /\ \E e \in SessionLevelUnits \cup CourseLevelUnits :
        LET key == move_results_key(job_config, e[1], e[2])
        IN /\ key \notin DOMAIN proc
           /\ proc' = [k \in DOMAIN proc \cup {key} |-> IF k = key THEN e ELSE proc[k]]
    /\ UNCHANGED <<job_config, raw, call, stage, units>>

CallCollectSessionResults ==
    /\ call = NoCall
    /\ call' = [fn |-> "collect_session_results",
                result |-> collect_session_results(
                               job_config, job_config.mode = M_extract_holdout,
                               <<>>, proc)]
    /\ UNCHANGED <<job_config, raw, stage, units, proc>>

CallCollectCourseResults ==
    /\ call = NoCall
    /\ call' = [fn |-> "collect_course_results",
                result |-> collect_course_results(job_config, proc)]
    /\ UNCHANGED <<job_config, raw, stage, units, proc>>

NextCollect ==
    \/ PutArchive
    \/ CallCollectSessionResults
    \/ CallCollectCourseResults

SpecCollect == InitCollect /\ [][NextCollect]_vars

\* The units the called aggregation is about, and those whose archive is present.
UnitsOfCall ==
    IF call.fn = "collect_session_results" THEN SessionLevelUnits ELSE CourseLevelUnits

PresentUnits ==
    {e \in UnitsOfCall : move_results_key(job_config, e[1], e[2]) \in DOMAIN proc}

\* C16: whichever of the units' archives are missing (all of them included),
\* collect_session_results and collect_course_results do not raise and return a
\* master table with exactly one feat_df per unit that is present, tagged with
\* the course (and session) of that unit.
C16_MissingArchivesSkipped ==
    (/\ call.fn \in {"collect_session_results", "collect_course_results"}
     /\ UnitsOfCall # {})
    => /\ call.result.err = "none"
       /\ NoDuplicates(call.result.val)
       /\ Range(call.result.val) = {FeatDf(e[1], e[2], e) : e \in PresentUnits}

-----------------------------------------------------------------------------
(* Local files: result CSV lookup, unarchiving, the cache mirror *)

\* Python's  s.endswith(suffix)  and  s.startswith(prefix)
endswith(s, suffix) ==
    Len(suffix) <= Len(s) /\ SubSeq(s, Len(s) - Len(suffix) + 1, Len(s)) = suffix

startswith(s, prefix) == HasPrefix(s, prefix)

\* os.path.join of two components
path_join(a, b) ==
    IF startswith(b, Slash) THEN b
    ELSE IF a = <<>> \/ endswith(a, Slash) THEN a \o b
    ELSE a \o Slash \o b

\* os.path.basename
RECURSIVE basename(_)
basename(path) ==
    IF path = <<>> THEN <<>>
    ELSE IF \E k \in 1..Len(path) : path[k] = "/" THEN basename(Tail(path))
    ELSE path

\* Python's  [x for x in xs if x.endswith(".csv") and not x.startswith(".")]
RECURSIVE csv_files(_)
csv_files(xs) ==
    IF xs = <<>> THEN <<>>
    ELSE IF endswith(Head(xs), Dot \o Ext_csv) /\ ~startswith(Head(xs), Dot)
         THEN <<Head(xs)>> \o csv_files(Tail(xs))
         ELSE csv_files(Tail(xs))

\* fetch_result_csv_fp: listdir is what os.listdir(dir) returned, in its order.
fetch_result_csv_fp(dir, listdir) ==
    LET csv == csv_files(listdir)
    IN IF csv = <<>> THEN [err |-> "IndexError", val |-> None, warned |-> FALSE]
       ELSE [err |-> "none", val |-> path_join(dir, csv[1]), warned |-> Len(csv) > 1]

S_a_csv == <<"a", ".", "c", "s", "v">>
S_b_csv == <<"b", ".", "c", "s", "v">>
S_hidden_csv == <<".", "c", ".", "c", "s", "v">>
S_r_txt == <<"r", ".", "t", "x", "t">>
S_w == <<"w">>
S_out == <<"o", "u", "t">>

\* What a unit's unarchived result directory may hold.
DirFiles == {S_a_csv, S_b_csv, S_hidden_csv, S_r_txt}

\* The orders os.listdir may return the files of a directory in.
Listings(files) ==
    {q \in UNION {[1..n -> files] : n \in 0..Cardinality(files)} :
        Len(q) = Cardinality(files) /\ Range(q) = files}

S_r_tgz == <<"r", ".", "t", "g", "z">>
S_r_zip == <<"r", ".", "z", "i", "p">>
S_s_sql_gz == <<"s", ".", "s", "q", "l", ".", "g", "z">>
S_r_tar == <<"r", ".", "t", "a", "r">>
S_r_csv == <<"r", ".", "c", "s", "v">>
S_member == <<"f", ".", "c", "s", "v">>

\* The files unarchive_file is called on, and the member of the tar archives.
Archives == {S_r_tgz, S_r_zip, S_s_sql_gz, S_r_tar, S_r_csv}

FsResult(err, val, fs) == [err |-> err, val |-> val, fs |-> fs]

unarchive_file_remove_first(src, dest, remove, fs, intact, removable) ==
    LET kept == IF remove /\ removable THEN fs \ {src} ELSE fs
    IN IF endswith(src, Dot \o <<"z", "i", "p">>) \/ endswith(src, Dot \o Ext_tgz)
       THEN IF ~intact THEN FsResult("ReadError", None, kept)
            ELSE FsResult("none", path_join(dest, basename(src)),
                          kept \cup {path_join(dest, S_member)})
       ELSE IF endswith(src, Dot \o <<"g", "z">>)
       THEN LET destfile == SubSeq(basename(src), 1, Len(basename(src)) - 3)
                destpath == path_join(dest, destfile)
            IN IF ~intact THEN FsResult("OSError", None, kept \cup {destpath})
               ELSE FsResult("none", destpath, kept \cup {destpath})
       ELSE FsResult("NotImplementedError", None, kept)

\* unarchive_file: fs is the set of local files, intact whether the archive can
\* be read to its end, removable whether os.remove(src) succeeds.
unarchive_file(src, dest, remove, fs, intact, removable) ==
    IF endswith(src, Dot \o <<"z", "i", "p">>) \/ endswith(src, Dot \o Ext_tgz)
    THEN IF ~intact THEN FsResult("ReadError", None, fs)
         ELSE LET extracted == fs \cup {path_join(dest, S_member)}
              IN FsResult("none", path_join(dest, basename(src)),
                          IF remove /\ removable THEN extracted \ {src} ELSE extracted)
    ELSE IF endswith(src, Dot \o <<"g", "z">>)
    THEN LET destfile == SubSeq(basename(src), 1, Len(basename(src)) - 3)
             destpath == path_join(dest, destfile)
         IN IF ~intact THEN FsResult("OSError", None, fs \cup {destpath})
            ELSE FsResult("none", destpath,
                          IF remove /\ removable THEN (fs \cup {destpath}) \ {src}
                          ELSE fs \cup {destpath})
    ELSE FsResult("NotImplementedError", None, fs)

\* fetch_from_cache: os.path.join(getattr(job_config, "cache_dir", None), ...)
\* raises TypeError on None, before the hasattr test.
fetch_from_cache(jc, cache_file_path, dest_dir, fs) ==
    IF jc.cache_dir = Missing THEN FsResult("TypeError", None, fs)
    ELSE LET abs_cache_file_path == path_join(jc.cache_dir, cache_file_path)
         IN IF abs_cache_file_path \in fs
            THEN LET dest_fp == path_join(dest_dir, basename(abs_cache_file_path))
                 IN FsResult("none", dest_fp, fs \cup {dest_fp})
            ELSE FsResult("none", None, fs)

S_labels == <<"m", "o", "r", "f", "-", "d", "a", "t", "a", "/", "l", "a", "b", "e", "l", "s", "-", "t", "r", "a", "i", "n", ".", "c", "s", "v">>

\* Relative paths asked of the cache, and the states of the local disk.
CachePaths == {path_join(S_b1, S_labels), path_join(S_b2, S_labels)}
CacheDisks == {{}, {path_join(S_cache, path_join(S_b1, S_labels))}}

InitFiles ==
    /\ job_config \in {ConfigFile(S_cache, S_docker_url, S_morf_data),
                        ConfigFile(Missing, S_docker_url, S_morf_data)}
    /\ raw = <<>>
    /\ call = NoCall
    /\ stage = NoStage
    /\ units = <<>>
    /\ proc = <<>>

CallFetchResultCsvFp ==
    /\ \E files \in SUBSET DirFiles : \E listdir \in Listings(files) :
        call' = [fn |-> "fetch_result_csv_fp", dir |-> S_w, files |-> files,
                 listdir |-> listdir, result |-> fetch_result_csv_fp(S_w, listdir)]
    /\ UNCHANGED <<job_config, raw, stage, units, proc>>

CallUnarchiveFile ==
    /\ \E name \in Archives, remove \in BOOLEAN, intact \in BOOLEAN,
          removable \in BOOLEAN, others \in SUBSET {path_join(S_out, S_member)} :
        LET src == path_join(S_w, name)
            fs == {src} \cup others
        IN call' = [fn |-> "unarchive_file", src |-> src, dest |-> S_out,
                    remove |-> remove, fs |-> fs, intact |-> intact,
                    result |-> unarchive_file(src, S_out, remove, fs, intact,
                                              removable)]
    /\ UNCHANGED <<job_config, raw, stage, units, proc>>

CallFetchFromCache ==
    /\ \E cache_file_path \in CachePaths, fs \in CacheDisks :
        call' = [fn |-> "fetch_from_cache", cache_file_path |-> cache_file_path,
                 dest_dir |-> S_w, fs |-> fs,
                 result |-> fetch_from_cache(job_config, cache_file_path, S_w, fs)]
    /\ UNCHANGED <<job_config, raw, stage, units, proc>>

NextFiles ==
    \/ CallFetchResultCsvFp
    \/ CallUnarchiveFile
    \/ CallFetchFromCache

SpecFiles == InitFiles /\ [][NextFiles]_vars

-----------------------------------------------------------------------------
(* C17 *)

\* C17: when the directory holds more than one candidate CSV file,
\* fetch_result_csv_fp warns and returns the lexically first candidate, whatever
\* the order of the directory listing.
C17_LexicallyFirstCsv ==
    (/\ call.fn = "fetch_result_csv_fp"
     /\ Len(csv_files(call.listdir)) > 1)
    => /\ call.result.warned
       /\ call.result.err = "none"
       /\ \A x \in Range(csv_files(call.listdir)) :
             LET chosen == call.result.val
             IN chosen = path_join(call.dir, x) \/ StrLess(chosen, path_join(call.dir, x))

-----------------------------------------------------------------------------
(* C19 *)

\* The file asked for exists in the cache mirror of the job.
CacheHit ==
    /\ job_config.cache_dir # Missing
    /\ path_join(job_config.cache_dir, call.cache_file_path) \in call.fs

\* C19: fetch_from_cache returns the path of a copy in dest_dir when the file is
\* in the cache mirror; in every other case, a job without cache_dir included,
\* it returns None, raises nothing and leaves the disk as it was.
C19_CacheMissIsNone ==
    call.fn = "fetch_from_cache"
    => /\ call.result.err = "none"
       /\ CacheHit => /\ call.result.val
                           = path_join(call.dest_dir, basename(call.cache_file_path))
                      /\ call.result.val \in call.result.fs
       /\ ~CacheHit => /\ call.result.val = None
                       /\ call.result.fs = call.fs

-----------------------------------------------------------------------------
(* C20 *)

SupportedArchive(src) ==
    \/ endswith(src, <<".", "z", "i", "p">>)
    \/ endswith(src, <<".", "t", "g", "z">>)
    \/ endswith(src, <<".", "g", "z">>)

\* The file an extraction of the source writes into dest.
ExtractedFile ==
    IF endswith(call.src, <<".", "g", "z">>) THEN call.result.val
    ELSE path_join(call.dest, S_member)

\* C20: unarchive_file raises its unsupported-extension error for every source
\* that is not .zip, .tgz or .gz and then leaves the source and the destination
\* as they were; the source is removed only with remove=True and after an
\* extraction that succeeded, and never with remove=False.
C20_UnarchiveContract ==
    call.fn = "unarchive_file"
    => /\ ~SupportedArchive(call.src)
            => /\ call.result.err = "NotImplementedError"
               /\ call.result.fs = call.fs
       /\ call.src \notin call.result.fs
            => /\ call.remove
               /\ call.result.err = "none"
               /\ call.intact
               /\ ExtractedFile \in call.result.fs
       /\ ~call.remove => call.src \in call.result.fs

\* unarchive_file was called with remove=True on a .tar file next to a file in
\* the destination: it raised and both files are still there.
C20_Witness ==
    /\ call.fn = "unarchive_file"
    /\ call.src = path_join(S_w, S_r_tar)
    /\ call.remove
    /\ call.fs = {call.src, path_join(S_out, S_member)}
    /\ call.result.err = "NotImplementedError"
    /\ call.result.fs = call.fs

-----------------------------------------------------------------------------
(* C18 *)

\* A required attribute is missing, or a [data] URL's directory is not morf-data/.
InvalidConfig ==
    \/ job_config.docker_url = Missing
    \/ job_config.data_dir # S_morf_data

\* C18: with an invalid configuration a stage function raises at its start:
\* it dispatches no unit, writes nothing and gets no further than constructing
\* its MorfJobConfig.
C18_InvalidConfigRaisesAtStart ==
    InvalidConfig
    => /\ units = <<>>
       /\ proc = <<>>
       /\ stage.fn \in StageFns => stage.pc = "raised" /\ stage.raised = "config"

-----------------------------------------------------------------------------
(* S3 URLs *)

MaxBucketLen == 2
MaxKeyLen == 3

S_s3_scheme == <<"s", "3", ":", "/", "/">>

\* The length of the longest prefix of s without the character c: how far the
\* greedy repetitions [^/]+ (c a slash) and .+ (c a newline) match.
RECURSIVE leading_without(_, _)
leading_without(s, c) ==
    IF s = <<>> \/ Head(s) = c THEN 0 ELSE 1 + leading_without(Tail(s), c)

\* re.search("^s3://([^/]+)", url).group(1); .group on None is an AttributeError
get_bucket_from_url(url) ==
    IF ~startswith(url, S_s3_scheme) THEN Raise("AttributeError")
    ELSE LET after == SubSeq(url, Len(S_s3_scheme) + 1, Len(url))
             n == leading_without(after, "/")
         IN IF n = 0 THEN Raise("AttributeError") ELSE Ok(SubSeq(after, 1, n))

get_key_from_url_or_empty(url) ==
    IF ~startswith(url, S_s3_scheme) THEN Raise("AttributeError")
    ELSE LET after == SubSeq(url, Len(S_s3_scheme) + 1, Len(url))
             n == leading_without(after, "/")
         IN IF n = 0 \/ n = Len(after) THEN Raise("AttributeError")
            ELSE LET rest == SubSeq(after, n + 2, Len(after))
                 IN Ok(SubSeq(rest, 1, leading_without(rest, "\n")))

\* re.search("^s3://[^/]+/(.+)", url).group(1)
get_key_from_url(url) ==
    IF ~startswith(url, S_s3_scheme) THEN Raise("AttributeError")
    ELSE LET after == SubSeq(url, Len(S_s3_scheme) + 1, Len(url))
             n == leading_without(after, "/")
         IN IF n = 0 \/ n = Len(after) THEN Raise("AttributeError")
            ELSE LET rest == SubSeq(after, n + 2, Len(after))
                     m == leading_without(rest, "\n")
                 IN IF m = 0 THEN Raise("AttributeError") ELSE Ok(SubSeq(rest, 1, m))

\* Characters of the URLs drawn: a bucket has no slash, a key may.
UrlChars == {"a", "-", ".", "/", ":"}

StringsUpTo(chars, n) == UNION {[1..k -> chars] : k \in 0..n}

BucketNames == StringsUpTo(UrlChars \ {"/"}, MaxBucketLen) \ {<<>>}
KeyNames == StringsUpTo(UrlChars, MaxKeyLen)

\* s3://<bucket>/<key>, and strings that are not of that form
S3Url(bucket, key) == S_s3_scheme \o bucket \o Slash \o key

Urls ==
    {S3Url(b, k) : b \in BucketNames, k \in KeyNames}
    \cup {S_s3_scheme \o b : b \in BucketNames}
    \cup {S_s3_scheme \o Slash \o k : k \in KeyNames}
    \cup {k : k \in KeyNames}

InitUrl ==
    /\ job_config = <<>>
    /\ raw = <<>>
    /\ \E url \in Urls : call = [fn |-> "none", url |-> url]
    /\ stage = NoStage
    /\ units = <<>>
    /\ proc = <<>>

CallGetBucketFromUrl ==
    /\ call.fn = "none"
    /\ call' = [fn |-> "get_bucket_from_url", url |-> call.url,
                result |-> get_bucket_from_url(call.url)]
    /\ UNCHANGED <<job_config, raw, stage, units, proc>>

CallGetKeyFromUrl ==
    /\ call.fn = "none"
    /\ call' = [fn |-> "get_key_from_url", url |-> call.url,
                result |-> get_key_from_url(call.url)]
    /\ UNCHANGED <<job_config, raw, stage, units, proc>>

NextUrl ==
    \/ CallGetBucketFromUrl
    \/ CallGetKeyFromUrl

SpecUrl == InitUrl /\ [][NextUrl]_vars

-----------------------------------------------------------------------------
(* C22 *)

\* C22: of every URL s3://<bucket>/<key> with a non-empty key, get_bucket_from_url
\* returns <bucket> and get_key_from_url returns <key>, so that the two results
\* rebuild the URL; with nothing after the bucket's slash get_key_from_url
\* raises AttributeError.
C22_UrlParts ==
    \A b \in BucketNames :
        startswith(call.url, S3Url(b, <<>>))
        => LET k == SubSeq(call.url, Len(S3Url(b, <<>>)) + 1, Len(call.url))
           IN /\ call.fn = "get_bucket_from_url" => call.result = Ok(b)
              /\ call.fn = "get_key_from_url" /\ k # <<>>
                 => /\ call.result = Ok(k)
                    /\ S_s3_scheme \o get_bucket_from_url(call.url).val
                           \o Slash \o call.result.val = call.url
              /\ call.fn = "get_key_from_url" /\ k = <<>>
                 => call.result = Raise("AttributeError")

\* get_key_from_url was asked for the key of a URL whose key itself holds
\* slashes and a colon, and returned it.
C22_Witness ==
    /\ call.fn = "get_key_from_url"
    /\ call.url = S3Url(<<"a", "-">>, <<"/", ":", "a">>)
    /\ call.result = Ok(<<"/", ":", "a">>)

-----------------------------------------------------------------------------
(* run_morf_job: one job from its configuration to the success email *)

M_evaluate == <<"e", "v", "a", "l", "u", "a", "t", "e">>
S_results == <<"r", "e", "s", "u", "l", "t", "s">>
S_email_to == <<"u", "@", "x">>

\* The key of the evaluation results send_success_email attaches: the job in
\* mode test, the file named for mode evaluate.
success_attachment_key(jc) ==
    make_s3_key_path(update_mode(jc, M_test), None,
                     generate_archive_filename(update_mode(jc, M_test), None, None,
                                               Ext_csv, M_evaluate, None),
                     None, None, None)

\* run_morf_job at position pc: status is job_config.status, rc the exit code of
\* the controller script (<<>> before it ran), raised the exception that left it.
JobAt(pc, status, rc, raised) ==
    [fn |-> "run_morf_job", pc |-> pc, status |-> status, rc |-> rc,
     raised |-> raised]

\* What the controller script may leave behind: an exit code, and the
\* evaluation results it did or did not write.
ControllerExitCodes == {0, 1}

InitJob ==
    /\ job_config \in ConfigFiles
    /\ raw = <<>>
    /\ call = NoCall
    /\ stage = NoStage
    /\ units = <<>>
    /\ proc \in {<<>>, [k \in {success_attachment_key(ConfigFile(S_cache, S_docker_url,
                                                               S_morf_data))}
                        |-> S_results]}

\* job_config = MorfJobConfig(combined_config_filename): status START; then the
\* email_to of the submission overrides the file's.
JobConstruct ==
    /\ stage = NoStage
    /\ LET jc == MorfJobConfig(job_config)
       IN IF jc.err # "none"
          THEN /\ stage' = JobAt("raised", "none", <<>>, jc.err)
               /\ UNCHANGED call
          ELSE /\ stage' = JobAt("constructed", "START", <<>>, "none")
               /\ \E email_to \in {None, S_email_to} :
                    call' = [fn |-> "run_morf_job", email_to |-> email_to]
    /\ UNCHANGED <<job_config, raw, units, proc>>

\* try: fetch_file(docker_url), fetch_file(controller_url) except KeyError:
\* fetch_file logs and swallows a failed download; a job_config without
\* docker_url raises AttributeError, which the except clause does not catch.
JobFetchFiles ==
    /\ stage.fn = "run_morf_job"
    /\ stage.pc = "constructed"
    /\ IF job_config.docker_url = Missing
       THEN /\ stage' = [stage EXCEPT !.pc = "raised", !.raised = "AttributeError"]
            /\ UNCHANGED call
       ELSE /\ stage' = [stage EXCEPT !.pc = "fetched"]
            /\ \E docker_image \in BOOLEAN, controller_script \in BOOLEAN :
                 call' = [fn |-> "run_morf_job", email_to |-> call.email_to,
                          docker_image |-> docker_image,
                          controller_script |-> controller_script]
    /\ UNCHANGED <<job_config, raw, units, proc>>

\* job_config.update_status("INITIALIZED"); send_email_alert(job_config):
\* ses_send_email logs and swallows a failed send.
JobInitialized ==
    /\ stage.fn = "run_morf_job"
    /\ stage.pc = "fetched"
    /\ stage' = [stage EXCEPT !.pc = "initialized", !.status = "INITIALIZED"]
    /\ \E sent \in BOOLEAN :
         units' = IF sent THEN Append(units, [email |-> "alert",
                                              status |-> "INITIALIZED"])
                  ELSE units
    /\ UNCHANGED <<job_config, raw, call, proc>>

\* subprocess.call("python3 controller.py", shell = True): the exit code is the
\* return value, which is not used.
JobController ==
    /\ stage.fn = "run_morf_job"
    /\ stage.pc = "initialized"
    /\ \E rc \in ControllerExitCodes, wrote \in BOOLEAN :
         /\ stage' = [stage EXCEPT !.pc = "controller_returned", !.rc = <<rc>>]
         /\ proc' = IF wrote
                    THEN [k \in {success_attachment_key(job_config)} |-> S_results]
                    ELSE proc
    /\ UNCHANGED <<job_config, raw, call, units>>

\* job_config.update_status("SUCCESS"); send_success_email(job_config):
\* download_from_s3 of the evaluation results re-raises when the object is not
\* there; a failed send is logged and swallowed.
JobSuccess ==
    /\ stage.fn = "run_morf_job"
    /\ stage.pc = "controller_returned"
    /\ IF success_attachment_key(job_config) \notin DOMAIN proc
       THEN /\ stage' = [stage EXCEPT !.pc = "raised", !.status = "SUCCESS",
                                      !.raised = "ClientError"]
            /\ UNCHANGED units
       ELSE /\ stage' = [stage EXCEPT !.pc = "returned", !.status = "SUCCESS"]
            /\ \E sent \in BOOLEAN :
                 units' = IF sent THEN Append(units, [email |-> "success",
                                                      status |-> "SUCCESS"])
                          ELSE units
    /\ UNCHANGED <<job_config, raw, call, proc>>

NextJob ==
    \/ JobConstruct
    \/ JobFetchFiles
    \/ JobInitialized
    \/ JobController
    \/ JobSuccess

SpecJob == InitJob /\ [][NextJob]_vars

-----------------------------------------------------------------------------
(* C21 *)

ControllerRan == stage.fn = "run_morf_job" /\ stage.rc # <<>>

\* C21: the status only moves START -> INITIALIZED -> SUCCESS; the controller
\* script runs only after INITIALIZED was set; SUCCESS is set, and the success
\* email sent, only after the controller script completed with exit code 0; and
\* a job whose controller script failed is never in status SUCCESS.
C21_StatusFollowsController ==
    /\ ControllerRan => stage.status \in {"INITIALIZED", "SUCCESS"}
    /\ stage.fn = "run_morf_job" /\ stage.status = "SUCCESS"
       => ControllerRan /\ stage.rc = <<0>>
    /\ (\E i \in 1..Len(units) : units[i].status = "SUCCESS")
       => ControllerRan /\ stage.rc = <<0>>

-----------------------------------------------------------------------------
(* C25 *)

\* run_image was entered for the unit and is past the staging of its inputs.
InputsAttempted(i) == units[i].status \notin {"queued", "terminated"}

\* C25: fetch_raw_course_data stages a session's raw files whether or not the
\* job has a cache_dir (from the cache mirror if it has, from the remote
\* bucket if not): once a session-level extraction unit is past its input
\* staging, nothing was raised and its input directory holds exactly the files
\* of its session.
C25_RawDataStaged ==
    \A i \in 1..Len(units) :
        /\ stage.fn \in {"extract_session", "extract_holdout_session"}
        /\ job_config.docker_url # Missing
        /\ InputsAttempted(i)
        => /\ units[i].err = "none"
           /\ units[i].staged = {<<units[i].bucket, units[i].course, units[i].session>>}

-----------------------------------------------------------------------------
(* run_image: the steps of one unit inside its temporary working directory *)

S_tmp1 == <<"t", "m", "p", "1">>
S_tmp2 == <<"t", "m", "p", "2">>

\* Names tempfile can give a new directory under local_working_directory.
TmpNames == {S_tmp1, S_tmp2}

\* The steps of run_image in the order of its statements.
RunImageSteps ==
    <<"image_download", "input_staging", "image_load", "workload_run",
      "image_removal", "output_archiving", "upload">>

\* tempfile.TemporaryDirectory(dir=...).__enter__: a new directory; the names
\* stand for the directories themselves, so one that was made is not made again.
mkdtemp(made) == TmpNames \ made

ExitWorkingDir_on_return(dirs, working_dir, raised) ==
    IF raised THEN dirs ELSE dirs \ {working_dir}

\* TemporaryDirectory.__exit__: the directory is removed, also when the body raised
ExitWorkingDir(dirs, working_dir, raised) == dirs \ {working_dir}

docker_run_mode_unchanged(mode) == mode

\* if mode == "extract-holdout": ... "extract"  else: ... mode
docker_run_mode(mode) == IF mode = M_extract_holdout THEN M_extract ELSE mode

\* What docker load printed on stdout: the image id after "sha256:", the tag of
\* a tagged image, or nothing when the load failed (the message is on stderr).
LoadOutputs(image_file) ==
    IF image_file = "downloaded" THEN {"sha256", "tagged", "empty"} ELSE {"empty"}

\* image_uuid: split("sha256:")[-1] or split()[-1]; [-1] of no token at all
image_uuid_of(load_output) ==
    IF load_output = "empty" THEN Raise("IndexError") ELSE Ok(load_output)

\* A unit run_image has not been entered for.
RunImageUnit(bucket, course, session, level) ==
    [bucket |-> bucket, course |-> course, session |-> session, level |-> level,
     pc |-> "queued", working_dir |-> None, image_file |-> "none", staged |-> {},
     image_uuid |-> None, rc |-> <<>>, cmds |-> <<>>, steps |-> <<>>,
     failures |-> {}, archive_file |-> "none", key |-> None, uploaded |-> FALSE,
     err |-> "none"]

\* The unit after a step that was executed, and after one that failed.
Did(u, step) == [u EXCEPT !.steps = Append(@, step)]
Failed(u, step) == [u EXCEPT !.failures = @ \cup {step}]

\* An exception leaves run_image.
Raised(u, err) == [u EXCEPT !.pc = "raised", !.err = err]

cleanup_if_run_succeeded(u) ==
    IF u.rc = <<0>>
    THEN [Did(u, "image_removal") EXCEPT
             !.cmds = Append(@, [op |-> "rmi", image |-> u.image_uuid]),
             !.pc = "cleaned"]
    ELSE [u EXCEPT !.pc = "cleaned"]

\* cmd = "{} rmi --force {}".format(docker_exec, image_uuid); subprocess.call(cmd)
cleanup(u) ==
    [Did(u, "image_removal") EXCEPT
        !.cmds = Append(@, [op |-> "rmi", image |-> u.image_uuid]),
        !.pc = "cleaned"]

\* The units of the pool, as the stage functions dispatch them: two sessions of
\* a course, or a course and a session of it.
RunImagePools ==
    {<<RunImageUnit(S_b1, S_c1, SessionName(1), "session"),
       RunImageUnit(S_b1, S_c1, SessionName(2), "session")>>,
     <<RunImageUnit(S_b1, S_c1, None, "course"),
       RunImageUnit(S_b1, S_c2, None, "course")>>}

InitRunImage ==
    /\ \E config \in ConfigFiles, mode \in Modes :
         /\ MorfJobConfig(config).err = "none"
         /\ job_config = update_mode(MorfJobConfig(config).val, mode)
    /\ raw = [b \in Buckets |-> [c \in Courses |->
                 IF b = S_b1 /\ c \in {S_c1, S_c2}
                 THEN {SessionName(i) : i \in 1..MaxSessions} ELSE NoCourse]]
    /\ call = NoCall
    /\ stage = [fn |-> "pool", dirs |-> {}, made |-> {}]
    /\ units \in RunImagePools
    /\ proc = <<>>

\* docker_url = job_config.docker_url ...; with tempfile.TemporaryDirectory(...)
RunImageEnter ==
    \E i \in 1..Len(units) :
        /\ units[i].pc = "queued"
        /\ IF job_config.docker_url = Missing
           THEN /\ units' = [units EXCEPT ![i] = Raised(@, "AttributeError")]
                /\ UNCHANGED stage
           ELSE \E d \in mkdtemp(stage.made) :
                  /\ units' = [units EXCEPT ![i].pc = "entered", ![i].working_dir = d]
                  /\ stage' = [stage EXCEPT !.dirs = @ \cup {d}, !.made = @ \cup {d}]
        /\ UNCHANGED <<job_config, raw, call, proc>>

\* try: fetch_file(s3, working_dir, docker_url, ...) except: print(...);
\* initialize_input_output_dirs(working_dir)
RunImageFetchImage ==
    \E i \in 1..Len(units) :
        /\ units[i].pc = "entered"
        /\ \E ok \in BOOLEAN :
             units' = [units EXCEPT ![i] =
                          [(IF ok THEN Did(@, "image_download")
                            ELSE Failed(Did(@, "image_download"), "image_download"))
                           EXCEPT !.pc = "fetched",
                                  !.image_file = IF ok THEN "downloaded" ELSE "empty"]]
        /\ UNCHANGED <<job_config, raw, call, stage, proc>>

\* initialize_raw_course_data / initialize_train_test_data / download_models
RunImageStageInputs ==
    \E i \in 1..Len(units) :
        /\ units[i].pc = "fetched"
        /\ LET u == units[i]
               inputs == run_image_inputs(job_config, u.bucket, u.course, u.session,
                                          u.level)
           IN IF inputs.err # "none"
              THEN /\ units' = [units EXCEPT ![i] =
                                   Raised(Failed(Did([u EXCEPT !.staged = inputs.staged],
                                                     "input_staging"),
                                                 "input_staging"), inputs.err)]
                   /\ stage' = [stage EXCEPT
                                   !.dirs = ExitWorkingDir(@, u.working_dir, TRUE)]
              ELSE /\ units' = [units EXCEPT ![i] =
                                   [Did(u, "input_staging") EXCEPT
                                       !.pc = "staged", !.staged = inputs.staged]]
                   /\ UNCHANGED stage
        /\ UNCHANGED <<job_config, raw, call, proc>>

\* subprocess.run("docker load -i ..."); image_uuid from its stdout
RunImageLoad ==
    \E i \in 1..Len(units) :
        /\ units[i].pc = "staged"
        /\ \E load_output \in LoadOutputs(units[i].image_file) :
            LET u == [Did(units[i], "image_load") EXCEPT
                         !.cmds = Append(@, [op |-> "load"])]
                image_uuid == image_uuid_of(load_output)
            IN IF image_uuid.err # "none"
               THEN /\ units' = [units EXCEPT ![i] =
                                    Raised(Failed(u, "image_load"), image_uuid.err)]
                    /\ stage' = [stage EXCEPT
                                    !.dirs = ExitWorkingDir(@, u.working_dir, TRUE)]
               ELSE /\ units' = [units EXCEPT ![i] =
                                    [u EXCEPT !.pc = "loaded",
                                              !.image_uuid = image_uuid.val]]
                    /\ UNCHANGED stage
        /\ UNCHANGED <<job_config, raw, call, proc>>

\* subprocess.call("docker run ... --mode {}"): the exit code is not used
RunImageRun ==
    \E i \in 1..Len(units) :
        /\ units[i].pc = "loaded"
        /\ \E rc \in {0, 1} :
            LET u == [Did(units[i], "workload_run") EXCEPT
                         !.cmds = Append(@, [op |-> "run", image |-> units[i].image_uuid,
                                             mode |-> docker_run_mode(job_config.mode)]),
                         !.rc = <<rc>>, !.pc = "ran"]
            IN units' = [units EXCEPT ![i] = IF rc = 0 THEN u
                                            ELSE Failed(u, "workload_run")]
        /\ UNCHANGED <<job_config, raw, call, stage, proc>>

\* subprocess.call("docker rmi --force {}")
RunImageCleanup ==
    \E i \in 1..Len(units) :
        /\ units[i].pc = "ran"
        /\ units' = [units EXCEPT ![i] = cleanup(@)]
        /\ UNCHANGED <<job_config, raw, call, stage, proc>>

\* archive_file = make_output_archive_file(output_dir, job_config, course, session)
RunImageArchive ==
    \E i \in 1..Len(units) :
        /\ units[i].pc = "cleaned"
        /\ units' = [units EXCEPT ![i] =
                        [Did(@, "output_archiving") EXCEPT
                            !.pc = "archived", !.archive_file = "written"]]
        /\ UNCHANGED <<job_config, raw, call, stage, proc>>

\* move_results_to_destination(archive_file, ...); the with block ends; return
RunImageUpload ==
    \E i \in 1..Len(units) :
        /\ units[i].pc = "archived"
        /\ \E upload_ok \in BOOLEAN :
            LET u == units[i]
                r == move_results_to_destination(job_config, u.course, u.session,
                                                 upload_ok)
                v == [Did(u, "upload") EXCEPT
                         !.pc = "returned", !.key = r.key, !.uploaded = r.uploaded,
                         !.archive_file = r.archive_file]
            IN /\ units' = [units EXCEPT ![i] = IF r.uploaded THEN v
                                               ELSE Failed(v, "upload")]
               /\ proc' = IF r.uploaded
                          THEN [k \in DOMAIN proc \cup {r.key} |->
                                    IF k = r.key THEN i ELSE proc[k]]
                          ELSE proc
               /\ stage' = [stage EXCEPT
                               !.dirs = ExitWorkingDir(@, u.working_dir, FALSE)]
        /\ UNCHANGED <<job_config, raw, call>>

NextRunImage ==
    \/ RunImageEnter
    \/ RunImageFetchImage
    \/ RunImageStageInputs
    \/ RunImageLoad
    \/ RunImageRun
    \/ RunImageCleanup
    \/ RunImageArchive
    \/ RunImageUpload

SpecRunImage == InitRunImage /\ [][NextRunImage]_vars

-----------------------------------------------------------------------------
(* C23 *)

IsPrefixOf(p, q) == Len(p) <= Len(q) /\ SubSeq(q, 1, Len(p)) = p

Executed(u, step) == \E k \in 1..Len(u.steps) : u.steps[k] = step

\* C23: a unit executes the steps of run_image in their order; a failed input
\* staging, image load, workload run, archiving or upload is the last step the
\* unit executes, and run_image then raises rather than returns; the workload is not run after a failed
\* image download, input staging or image load; and nothing is uploaded for a
\* unit one of whose earlier steps failed.
C23_FailureStopsUnit ==
    \A i \in 1..Len(units) :
        LET u == units[i]
        IN /\ IsPrefixOf(u.steps, RunImageSteps)
           /\ \A f \in u.failures \ {"image_download", "upload"} :
                  u.steps[Len(u.steps)] = f
           /\ u.pc = "returned" => u.failures \ {"upload"} = {}
           /\ Executed(u, "workload_run")
              => u.failures \cap {"image_download", "input_staging", "image_load"} = {}
           /\ u.uploaded => u.failures = {}

-----------------------------------------------------------------------------
(* C26 *)

RanWorkload(i) == Executed(units[i], "workload_run")

\* docker rmi was issued for the image the unit loaded.
RemovedImage(i) ==
    \E k \in 1..Len(units[i].cmds) :
        units[i].cmds[k] = [op |-> "rmi", image |-> units[i].image_uuid]

\* The unit's output is archived, or run_image has ended.
ArchivedOrEnded(i) ==
    \/ Executed(units[i], "output_archiving")
    \/ units[i].pc \in {"returned", "raised"}

-----------------------------------------------------------------------------
(* C27 *)

\* C27: the --mode of every docker run is the job's mode, except that a job in
\* mode extract-holdout passes extract; extract-holdout is never passed.
C27_WorkloadMode ==
    \A i \in 1..Len(units) : \A k \in 1..Len(units[i].cmds) :
        units[i].cmds[k].op = "run"
        => /\ units[i].cmds[k].mode # M_extract_holdout
           /\ units[i].cmds[k].mode = IF job_config.mode = M_extract_holdout
                                      THEN M_extract ELSE job_config.mode

\* A unit of a job in mode extract-holdout ran its workload with --mode extract.
C27_Witness ==
    /\ job_config.mode = M_extract_holdout
    /\ \E i \in 1..Len(units) : \E k \in 1..Len(units[i].cmds) :
         units[i].cmds[k].op = "run" /\ units[i].cmds[k].mode = M_extract

-----------------------------------------------------------------------------
(* C28 *)

InRunImage(i) == units[i].pc \notin {"queued", "returned", "raised"}

\* C28: two units that are inside run_image at the same time have different
\* working directories, each of which exists; and once run_image has returned
\* or raised, the unit's working directory no longer exists.
C28_OwnWorkingDirRemoved ==
    /\ \A i, j \in 1..Len(units) :
         i # j /\ InRunImage(i) /\ InRunImage(j)
         => units[i].working_dir # units[j].working_dir
    /\ \A i \in 1..Len(units) :
         InRunImage(i) => units[i].working_dir \in stage.dirs
    /\ \A i \in 1..Len(units) :
         units[i].pc \in {"returned", "raised"}
         => units[i].working_dir \notin stage.dirs

\* One unit raised while staging its inputs, its directory gone, while the
\* other is inside run_image in a directory of its own.
C28_Witness ==
    \E i, j \in 1..Len(units) :
        /\ units[i].pc = "raised"
        /\ units[i].failures = {"input_staging"}
        /\ units[i].working_dir \in stage.made \ stage.dirs
        /\ InRunImage(j)
        /\ units[j].working_dir \in stage.dirs

-----------------------------------------------------------------------------
(* The stage functions over a processed-data bucket that already holds objects *)

S_u2 == <<"u", "2">>
S_j2 == <<"j", "2">>

\* Who may have left an archive: this or another user, this or another job, in
\* each mode.
PriorOwners ==
    {[user_id |-> u, job_id |-> j, mode |-> m] :
        u \in {S_u, S_u2}, j \in {S_j, S_j2}, m \in Modes}

\* The key of the course-level archive of course c1 that the owner uploaded.
PriorKey(owner) == move_results_key(owner, S_c1, None)

\* The bucket before the stage: one archive of each owner; its content is not
\* that of a unit of the stage.
PriorObjects == [k \in {PriorKey(o) : o \in PriorOwners} |-> 0]

InitClear ==
    /\ job_config = ConfigFile(S_cache, S_docker_url, S_morf_data)
    /\ raw \in [Buckets -> [Courses -> {{SessionName(1)},
                                         {SessionName(1), SessionName(2)}}]]
    /\ call = NoCall
    /\ stage = NoStage
    /\ units = <<>>
    /\ proc = PriorObjects

SpecClear == InitClear /\ [][Next]_vars

-----------------------------------------------------------------------------
(* C29 *)

\* <user_id>/<job_id>/<mode>/ of the running stage
StagePrefix == Join(<<job_config.user_id, job_config.job_id, job_config.mode>>, Slash)
                   \o Slash

StageStarted == stage.fn \in StageFns /\ ~(stage.pc = "raised" /\ stage.raised = "config")

\* The object is the one that was in the bucket before the stage.
Untouched(k) == k \in DOMAIN proc /\ proc[k] = PriorObjects[k]

-----------------------------------------------------------------------------
(* download_models: the trained models a test unit stages *)

\* Course names a catalog may hold.
ModelCourses == {S_c, S_c1, S_c2, S_c_2012}

\* The keys under which the train stage of the job uploads the model archives
\* of a course: one for the course (train_course), or one for each session
\* (train_session).
TrainKeys(jc, course, train_level) ==
    IF train_level = "course"
    THEN {move_results_key(update_mode(jc, M_train), course, None)}
    ELSE {move_results_key(update_mode(jc, M_train), course, SessionName(i)) :
             i \in 1..MaxNTrain}

\* Archives of the job in its other modes, and the train archives of another job.
OtherKeys(jc, course) ==
    {move_results_key(update_mode(jc, M_extract), course, None),
     move_results_key(update_mode(jc, M_test), course, None),
     move_results_key(update_mode([jc EXCEPT !.job_id = S_j2], M_train), course, None)}

\* download_models: the keys it passes to download_model_from_s3, which
\* downloads and unarchives each into dest_dir.
download_models(jc, course, level, session, objects) ==
    IF level = "all"
    THEN Ok({k \in DOMAIN objects :
                k = make_s3_key_path(jc, None,
                        generate_archive_filename(jc, None, None, Ext_tgz, M_train, None),
                        None, M_train, None)})
    ELSE IF level \in {"course", "session"}
    THEN Ok({k \in DOMAIN objects :
                /\ HasPrefix(k, Join(<<jc.user_id, jc.job_id, M_train>>, Slash))
                /\ IsSubstring(Dot \o Ext_tgz, basename(k))
                /\ IsSubstring(M_train, basename(k))
                /\ IsSubstring(course, basename(k))})
    ELSE Raise("RuntimeError")

\* The catalog's courses, and the bucket after the train stage of the job.
InitModels ==
    /\ job_config = update_mode(MorfJobConfig(ConfigFile(S_cache, S_docker_url,
                                                         S_morf_data)).val, M_test)
    /\ \E courses \in SUBSET ModelCourses \ {{}}, train_level \in {"course", "session"} :
         /\ raw = [courses |-> courses, train_level |-> train_level]
         /\ proc = [k \in UNION {TrainKeys(job_config, c, train_level)
                                    \cup OtherKeys(job_config, c) : c \in courses}
                    |-> S_results]
    /\ call = NoCall
    /\ stage = NoStage
    /\ units = <<>>

CallDownloadModels ==
    /\ \E course \in raw.courses, level \in {"course", "session"} :
         LET session == IF level = "session" THEN SessionName(MaxNTrain + 1) ELSE None
         IN call' = [fn |-> "download_models", course |-> course, level |-> level,
                     session |-> session,
                     result |-> download_models(job_config, course, level, session,
                                                proc)]
    /\ UNCHANGED <<job_config, raw, stage, units, proc>>

CallDownloadModelsAll ==
    /\ call' = [fn |-> "download_models", course |-> None, level |-> "all",
                session |-> None,
                result |-> download_models(job_config, None, "all", None, proc)]
    /\ UNCHANGED <<job_config, raw, stage, units, proc>>

NextModels ==
    \/ CallDownloadModels
    \/ CallDownloadModelsAll

SpecModels == InitModels /\ [][NextModels]_vars

-----------------------------------------------------------------------------
(* C30 *)

\* C30: for a course- or session-level unit of course c, download_models stages
\* exactly the model archives the train stage of the job uploaded for c, and
\* none of another course, whatever courses the catalog holds.
C30_ModelsOfOwnCourse ==
    call.fn = "download_models" /\ call.level \in {"course", "session"}
    => /\ call.result.err = "none"
       /\ call.result.val = TrainKeys(job_config, call.course, raw.train_level)

-----------------------------------------------------------------------------
(* C24 *)

\* The stage functions that aggregate the archives of their units.
AggregatingStages ==
    {"extract_all", "extract_course", "extract_session", "extract_holdout_all",
     "extract_holdout_course", "extract_holdout_session", "test_all", "test_course"}

\* A processed-data bucket holding an archive, named by its key, under every key
\* a unit of the stage's mode can have.
EveryArchive ==
    [k \in {move_results_key(job_config, c, s) :
               c \in Courses \cup {None},
               s \in {None} \cup UNION {raw[b][c2] : b \in Buckets, c2 \in Courses}}
     |-> k]

\* The rows the loops of the stage's aggregator build over EveryArchive, before
\* pd.concat; the keys it fetches are those the rows came from.
AggregatorRows ==
    IF StageLevel(stage.fn) = "all" THEN collect_all_results(job_config, EveryArchive)
    ELSE IF StageLevel(stage.fn) = "course"
    THEN course_results_buckets(job_config, job_config.raw_data_buckets, EveryArchive)
    ELSE session_results_buckets(job_config, stage.fn = "extract_holdout_session",
                                 job_config.raw_data_buckets, EveryArchive)
AggregatorKeys == {AggregatorRows.val[n].unit : n \in 1..Len(AggregatorRows.val)}

\* The key each dispatched unit uploads its archive under.
UnitKey(i) ==
    move_results_key(job_config, RunImageArgs(job_config, units[i]).course,
                     RunImageArgs(job_config, units[i]).session)
DispatchedKeys == {UnitKey(i) : i \in 1..Len(units)}

\* C24: when a stage aggregates, its aggregator enumerates the units the
\* scheduler dispatched and fetches each under the key the unit uploaded its
\* archive to, for every stage and level.
C24_AggregatorMatchesDispatch ==
    stage.fn \in AggregatingStages /\ stage.pc = "collect"
    => /\ AggregatorRows.err = "none"
       /\ AggregatorKeys = DispatchedKeys

====
